---- MODULE Spec2Model ----
(***************************************************************************)
(* State-machine model of ArikaJs/foundation: the Application lifecycle    *)
(* (register / boot / run), the configuration Repository and the           *)
(* dependency-injection Container.                                         *)
(*                                                                         *)
(* The specifications that share the module:                               *)
(*   Spec   - the Application lifecycle over a list of service providers   *)
(*            whose register()/boot() may be asynchronous;                 *)
(*   SpecC  - the Container (bind/singleton/instance/alias/tag/extend/     *)
(*            make/has) together with Application.make's config fallback;  *)
(*   SpecR  - the Repository's reads;                                      *)
(*   SpecB  - the Container's registrations, aliases, extenders and make;  *)
(*   SpecD  - the Container with every alias map, two extenders and an     *)
(*            unused tag;                                                  *)
(*   SpecT  - onTerminate()/terminate() next to boot() and run();          *)
(*   SpecA  - the Application as a whole;                                  *)
(*   SpecE  - EnvLoader.load over environments and .env files;             *)
(*   SpecL  - Repository.loadConfigDirectory over what the path may hold;  *)
(*   SpecK  - the construction of Applications, the static instance and    *)
(*            the config() helper.                                         *)
(***************************************************************************)
EXTENDS Integers, Sequences, FiniteSets, TLC

\* ------------------------------------------------------------------ bounds
MaxProviders == 2      \* longest provider list explored
MaxOps == 4            \* container operations per behaviour
MaxCallbacks == 2      \* longest list of termination callbacks explored
MaxLines == 2          \* longest .env file explored, in lines
MaxFiles == 2          \* most files in a config directory explored
MaxApps == 2           \* most Application objects constructed

\* ------------------------------------------------------------ JS values
\* A JavaScript value is a tagged record, so that values of different
\* types can be compared.
Undef == [t |-> "undefined"]
Null == [t |-> "null"]
Str(s) == [t |-> "str", s |-> s]
Obj(m) == [t |-> "map", m |-> m]
\* A member every object inherits from Object.prototype.
Builtin(k) == [t |-> "builtin", name |-> k]
\* The number 'length' of a string.
LengthOf(s) == [t |-> "length", of |-> s]
\* The inherited member names that occur among the keys looked up.
ProtoKeys == {"constructor", "toString"}

\* JavaScript truthiness, as used by `!x`, `if (x)` and `a || b`.
Truthy(v) == /\ v # Undef
             /\ v # Null
             /\ v # Str("")

\* value[k] for one path segment (Repository.get, the loop body): an own
\* property of a mapping, else a member inherited from the prototype, or
\* the length of a string.
Index(value, k) ==
  IF value.t = "map" /\ k \in DOMAIN value.m THEN value.m[k]
  ELSE IF k \in ProtoKeys THEN Builtin(k)
  ELSE IF value.t = "str" /\ k = "length" THEN LengthOf(value.s)
  ELSE Undef

\* Repository.get(key, defaultValue) on the tree `tree`; `keys` is
\* key.split('.').
RECURSIVE Walk(_, _, _)
Walk(value, keys, defaultValue) ==
  IF keys = <<>> THEN (IF value # Undef THEN value ELSE defaultValue)
  ELSE IF value = Undef \/ value = Null THEN defaultValue
  ELSE Walk(Index(value, Head(keys)), Tail(keys), defaultValue)

RepoGet(tree, keys, defaultValue) == Walk(Obj(tree), keys, defaultValue)

\* ------------------------------------------------------- configuration
\* A config directory is what loadConfigDirectory finds at a path: "none"
\* (the path does not exist) or a mapping from file base name to the value
\* the file exports (Undef: the file fails to load).
AppFull == Obj([key |-> Str("base64:k"), timezone |-> Str("Asia/Kolkata")])
AppTzOnly == Obj([timezone |-> Str("Asia/Kolkata")])
AppEmpty == Obj([key |-> Str(""), timezone |-> Str("")])

DirMissing == [exists |-> FALSE, files |-> <<>>]
DirFull == [exists |-> TRUE, files |-> [app |-> AppFull]]
DirTzOnly == [exists |-> TRUE, files |-> [app |-> AppTzOnly]]
DirBroken == [exists |-> TRUE, files |-> [app |-> Undef, db |-> Str("x")]]
DirEmpty == [exists |-> TRUE, files |-> [app |-> AppEmpty]]
Dirs == {DirMissing, DirFull, DirTzOnly, DirEmpty, DirBroken}

\* The files of a directory that pass the `typeof configValue === 'object'
\* && configValue !== null` test.
Loadable(dir) == {f \in DOMAIN dir.files : dir.files[f].t = "map"}

\* The tree after the for-loop of loadConfigDirectory.
MergeDir(tree, dir) ==
  [f \in DOMAIN tree \cup Loadable(dir) |->
     IF f \in Loadable(dir) THEN dir.files[f] ELSE tree[f]]

ConfigModifiedMsg == "Configuration cannot be modified after boot."
RegisterAfterBootMsg ==
  "Cannot register providers after the application has been booted."
AppKeyMsg ==
  "Application key (APP_KEY) is not set. Please run arika key:generate to generate one."

\* --------------------------------------------------------------- state
VARIABLES
  providers,       \* Application.providers: sequence of provider instances
  instances,       \* how many provider instances register() has constructed
  booted,          \* Application.booted
  config,          \* Repository.config (top-level mapping)
  repoBooted,      \* Repository.booted
  envTZ,           \* process.env.TZ
  nodeEnv,         \* process.env.NODE_ENV
  runs,            \* each boot()/run() invocation's position
  log,             \* per invocation: the provider calls it made and saw settle
  thrown,          \* the error most recently thrown by a synchronous API call
  bindings,        \* Container.bindings: Token -> Binding
  aliases,         \* Container.aliases: Token -> Token
  tags,            \* Container.tags: tag -> sequence of Tokens
  extenders,       \* Container.extenders: Token -> sequence of callbacks
  usage,           \* per binding, since it was registered: factory runs,
                   \* resolutions, values returned
  factoryRuns,     \* how many times a factory has been executed
  extenderRuns,    \* how many extender callbacks have been executed
  serial,          \* how many objects factories and constructors have built
  ops,             \* how many container operations have been performed
  ret,             \* the most recent resolution or query and its outcome
  got,             \* the most recent Repository read and its result
  copy,            \* the mapping a caller holds from Repository.all()
  terminatingCallbacks,  \* Application.terminatingCallbacks
  terminations,    \* each terminate() invocation's position
  termLog,         \* per invocation: the callbacks it called and saw settle
  env,             \* process.env: key -> string
  dotenv,          \* the .env file in the base path
  configDir,       \* what is at <basePath>/config
  cachedConfig,    \* what is at <basePath>/bootstrap/cache/config.json
  appInstance,     \* Application.instance (static): 0 for null, or an
                   \* index into apps
  activeRepo,      \* support/config.ts activeRepo: 0 for null, or an index
                   \* into repos
  apps,            \* the Application objects constructed so far
  repos            \* the Repository objects they constructed: their trees

lifecycleVars == <<providers, instances, booted, repoBooted, envTZ, nodeEnv,
                   runs, log, thrown>>
containerVars == <<bindings, aliases, tags, extenders, usage, factoryRuns,
                   factoryRuns, extenderRuns, serial, ops, ret>>
readVars == <<got, copy>>
termVars == <<terminatingCallbacks, terminations, termLog>>
diskVars == <<configDir, cachedConfig>>
globalVars == <<appInstance, activeRepo, apps, repos>>
\* All that lies outside the one application followed by the lifecycle, the
\* container and the reads: the process environment, the disk and the
\* process-wide pointers.
envVars == <<env, dotenv, diskVars, globalVars>>
vars == <<providers, instances, booted, config, repoBooted, envTZ, nodeEnv,
          runs, log, thrown, bindings, aliases, tags, extenders, usage,
          factoryRuns, extenderRuns, serial, ops, ret, got, copy,
          terminatingCallbacks, terminations, termLog, env, dotenv,
          configDir, cachedConfig, appInstance, activeRepo, apps,
          repos>>

\* The invocations of boot()/run() that are followed: a first one and a
\* second one, which may start while the first is still awaiting a provider
\* or after it has ended.
Runs == {1, 2}
Idle == [pc |-> "idle", kind |-> "none", idx |-> 0, st |-> "none",
         err |-> "none"]


\* The application after construction, its configuration loaded from one
\* of the directories `dirs`.
InitWith(dirs) ==
  /\ providers = <<>>
  /\ instances = 0
  /\ booted = FALSE
  /\ config \in {MergeDir(<<>>, d) : d \in dirs}
  /\ repoBooted = FALSE
  /\ envTZ = Str("UTC")
  /\ nodeEnv \in {"production", "development"}
  /\ runs = [r \in Runs |-> Idle]
  /\ log = [r \in Runs |-> <<>>]
  /\ thrown = "none"

InitLifecycle == InitWith({DirMissing, DirFull})

\* ------------------------------------------------- Application.register
\* The guard `if (this.booted) throw`.
RegisterNeverRefused == FALSE
RegisterRefused == booted

\* What register() may be given: a provider class (instantiated with the
\* application: `new provider(this)`) or a live provider instance, one of
\* those constructed so far. Instances are named 1, 2, ... in the order
\* they are constructed.
ProviderClass == [isInstance |-> FALSE, id |-> 0]
ProviderInstance(i) == [isInstance |-> TRUE, id |-> i]
ProviderArgs ==
  {ProviderClass} \cup {ProviderInstance(i) : i \in 1..MaxProviders}

AppRegisterPrepends(provider) ==
  /\ provider.isInstance => provider.id \in 1..instances
  /\ UNCHANGED <<containerVars, readVars, termVars, envVars>>
  /\ IF RegisterRefused
     THEN /\ thrown' = RegisterAfterBootMsg
          /\ UNCHANGED <<providers, instances, booted, config, repoBooted,
                         envTZ, nodeEnv, runs, log>>
     ELSE /\ Len(providers) < MaxProviders
          /\ IF provider.isInstance
             THEN /\ providers' = <<provider.id>> \o providers
                  /\ UNCHANGED instances
             ELSE /\ instances' = instances + 1
                  /\ providers' = <<instances + 1>> \o providers
          /\ UNCHANGED <<booted, config, repoBooted, envTZ, nodeEnv, runs,
                         log, thrown>>

\* register(provider).
AppRegister(provider) ==
  /\ provider.isInstance => provider.id \in 1..instances
  /\ UNCHANGED <<containerVars, readVars, termVars, envVars>>
  /\ IF RegisterRefused
     THEN /\ thrown' = RegisterAfterBootMsg
          /\ UNCHANGED <<providers, instances, booted, config, repoBooted,
                         envTZ, nodeEnv, runs, log>>
     ELSE /\ Len(providers) < MaxProviders
          /\ IF provider.isInstance
             THEN /\ providers' = Append(providers, provider.id)
                  /\ UNCHANGED instances
             ELSE /\ instances' = instances + 1
                  /\ providers' = Append(providers, instances + 1)
          /\ UNCHANGED <<booted, config, repoBooted, envTZ, nodeEnv, runs,
                         log, thrown>>

\* ----------------------------------------------------- Application.boot
Event(ev, op, i) == [ev |-> ev, op |-> op, i |-> i, inst |-> providers[i]]

\* The guard `if (this.booted) return` at the top of boot().
AlreadyBootedNever == FALSE
AlreadyBooted == booted

FinishUnchecked(r, rec) ==
  /\ envTZ' = (IF Truthy(RepoGet(config, <<"app", "timezone">>, Undef))
               THEN RepoGet(config, <<"app", "timezone">>, Undef)
               ELSE envTZ)
  /\ repoBooted' = TRUE
  /\ booted' = TRUE
  /\ runs' = [runs EXCEPT ![r] = [rec EXCEPT !.pc = "done", !.st = "none"]]
  /\ UNCHANGED log

FinishKeepsTZ(r, rec) ==
  IF ~Truthy(RepoGet(config, <<"app", "key">>, Undef)) /\ nodeEnv = "production"
  THEN /\ runs' = [runs EXCEPT ![r] = [rec EXCEPT !.pc = "failed",
                                                  !.st = "none",
                                                  !.err = AppKeyMsg]]
       /\ UNCHANGED <<booted, repoBooted, envTZ, log>>
  ELSE /\ repoBooted' = TRUE
       /\ booted' = TRUE
       /\ runs' = [runs EXCEPT ![r] = [rec EXCEPT !.pc = "done", !.st = "none"]]
       /\ UNCHANGED <<envTZ, log>>

\* Phase 3 and the end of boot(): the APP_KEY check, the time zone, the
\* freeze of the repository and the booted flag. `rec` is the invocation's
\* record so far.
Finish(r, rec) ==
  IF ~Truthy(RepoGet(config, <<"app", "key">>, Undef)) /\ nodeEnv = "production"
  THEN /\ runs' = [runs EXCEPT ![r] = [rec EXCEPT !.pc = "failed",
                                                  !.st = "none",
                                                  !.err = AppKeyMsg]]
       /\ UNCHANGED <<booted, repoBooted, envTZ, log>>
  ELSE /\ envTZ' = (IF Truthy(RepoGet(config, <<"app", "timezone">>, Undef))
                    THEN RepoGet(config, <<"app", "timezone">>, Undef)
                    ELSE envTZ)
       /\ repoBooted' = TRUE
       /\ booted' = TRUE
       /\ runs' = [runs EXCEPT ![r] = [rec EXCEPT !.pc = "done", !.st = "none"]]
       /\ UNCHANGED log

\* The second for-loop at position i: call providers[i].boot() and await
\* it, or leave the loop.
BootPhase(r, rec, i) ==
  IF i <= Len(providers)
  THEN /\ runs' = [runs EXCEPT ![r] = [rec EXCEPT !.pc = "boot", !.idx = i,
                                                  !.st = "pending"]]
       /\ log' = [log EXCEPT ![r] = Append(@, Event("call", "boot", i))]
       /\ UNCHANGED <<booted, repoBooted, envTZ>>
  ELSE Finish(r, rec)

RegisterPhaseFirstOnly(r, rec, i) ==
  IF i <= Len(providers) /\ i <= 1
  THEN /\ runs' = [runs EXCEPT ![r] = [rec EXCEPT !.pc = "register",
                                                  !.idx = i,
                                                  !.st = "pending"]]
       /\ log' = [log EXCEPT ![r] = Append(@, Event("call", "register", i))]
       /\ UNCHANGED <<booted, repoBooted, envTZ>>
  ELSE BootPhase(r, rec, 1)

\* The first for-loop at position i: call providers[i].register() and
\* await it, or go on to the second loop.
RegisterPhase(r, rec, i) ==
  IF i <= Len(providers)
  THEN /\ runs' = [runs EXCEPT ![r] = [rec EXCEPT !.pc = "register",
                                                  !.idx = i,
                                                  !.st = "pending"]]
       /\ log' = [log EXCEPT ![r] = Append(@, Event("call", "register", i))]
       /\ UNCHANGED <<booted, repoBooted, envTZ>>
  ELSE BootPhase(r, rec, 1)

\* boot() up to its first await (or to its end when there is none).
BootBody(r, rec) ==
  IF AlreadyBooted
  THEN /\ runs' = [runs EXCEPT ![r] = [rec EXCEPT !.pc = "returned"]]
       /\ UNCHANGED <<booted, repoBooted, envTZ, log>>
  ELSE RegisterPhase(r, rec, 1)

\* Invocations are numbered in the order they are made.
NextSlot(r) == /\ runs[r].pc = "idle"
               /\ \A q \in 1..(r - 1) : runs[q].pc # "idle"

\* A call of Application.boot().
Boot(r) ==
  /\ NextSlot(r)
  /\ BootBody(r, [runs[r] EXCEPT !.kind = "boot"])
  /\ UNCHANGED <<providers, instances, config, nodeEnv, thrown>>
  /\ UNCHANGED <<containerVars, readVars, termVars, envVars>>

\* A call of Application.run(): `if (!this.booted) await this.boot()`.
Run(r) ==
  /\ NextSlot(r)
  /\ IF ~booted
     THEN BootBody(r, [runs[r] EXCEPT !.kind = "run"])
     ELSE /\ runs' = [runs EXCEPT ![r].kind = "run", ![r].pc = "returned"]
          /\ UNCHANGED <<booted, repoBooted, envTZ, log>>
  /\ UNCHANGED <<providers, instances, config, nodeEnv, thrown>>
  /\ UNCHANGED <<containerVars, readVars, termVars, envVars>>

\* The promise returned by the provider call that invocation r awaits
\* settles: it resolves, or it rejects (the provider threw).
Settle(r, outcome) ==
  /\ runs[r].st = "pending"
  /\ runs' = [runs EXCEPT ![r].st = outcome]
  /\ log' = [log EXCEPT
               ![r] = Append(@, Event(outcome, runs[r].pc, runs[r].idx))]
  /\ UNCHANGED <<providers, instances, booted, config, repoBooted,
                 envTZ, nodeEnv, thrown>>
  /\ UNCHANGED <<containerVars, readVars, termVars, envVars>>

\* The continuation after `await`: the loop goes on with the next
\* provider, or boot() rejects with what the provider threw.
Resume(r) ==
  /\ runs[r].st \in {"resolved", "rejected"}
  /\ IF runs[r].st = "rejected"
     THEN /\ runs' = [runs EXCEPT ![r].pc = "failed", ![r].st = "none",
                                  ![r].err = "provider"]
          /\ UNCHANGED <<booted, repoBooted, envTZ, log>>
     ELSE IF runs[r].pc = "register"
          THEN RegisterPhase(r, runs[r], runs[r].idx + 1)
          ELSE BootPhase(r, runs[r], runs[r].idx + 1)
  /\ UNCHANGED <<providers, instances, config, nodeEnv, thrown>>
  /\ UNCHANGED <<containerVars, readVars, termVars, envVars>>

\* ------------------------------------ Repository.loadConfigDirectory
\* The guard `if (this.booted) throw` of loadConfigDirectory.
ConfigFrozenNever == FALSE
ConfigFrozen == repoBooted

LoadConfigDirectory(dir) ==
  /\ UNCHANGED <<containerVars, readVars, termVars, envVars>>
  /\ IF ConfigFrozen
     THEN /\ thrown' = ConfigModifiedMsg
          /\ UNCHANGED <<providers, instances, booted, config, repoBooted,
                         envTZ, nodeEnv, runs, log>>
     ELSE /\ config' = (IF dir.exists THEN MergeDir(config, dir) ELSE config)
          /\ UNCHANGED <<providers, instances, booted, repoBooted,
                         envTZ, nodeEnv, runs, log, thrown>>


\* ============================================================ Container
\* A token is a string (its '.'-separated segments) or a constructor
\* reference (a class, by name).
StrToken(segs) == [k |-> "str", s |-> segs]
CtorToken(name) == [k |-> "ctor", s |-> <<name>>]
TokA == StrToken(<<"a">>)                          \* 'a'
TokCfg == StrToken(<<"config", "app", "key">>)     \* 'config.app.key'
TokK == CtorToken("K")                             \* class K, never bound
TokApplication == CtorToken("Application")
TokContainer == CtorToken("Container")
TokRepository == CtorToken("Repository")
Tokens == {TokA, TokCfg, TokK}
\* The tokens bindings are registered under; class K stays unbound.
Bindable == {TokA, TokCfg}
TagG == [k |-> "tag", s |-> <<"g">>]
\* A tag no token is ever grouped under.
TagH == [k |-> "tag", s |-> <<"h">>]

\* `typeof token === 'function'`
IsCtor(token) == token.k = "ctor"
\* truthiness of a token, for `this.aliases.get(token) || token`
TruthyToken(token) == token # StrToken(<<"">>)

\* Factories: one that builds a new object on every call, one that returns
\* undefined, and the `() => value` closure that instance() stores.
FNew == [k |-> "new", v |-> Undef]
FUndef == [k |-> "undef", v |-> Undef]
FConst(value) == [k |-> "const", v |-> value]
Factories == {FNew, FUndef}
\* The values handed to instance().
InstanceValues == {Str("v"), Undef}

\* The objects the program builds.
NewObj(by, n) == [t |-> "obj", by |-> by, n |-> n]
TheApp == [t |-> "obj", by |-> "Application", n |-> 0]
TheContainer == [t |-> "obj", by |-> "Container", n |-> 0]
TheRepository == [t |-> "obj", by |-> "Repository", n |-> 0]
\* What the extender callback `e` makes of an instance.
Decorated(e, value) == [t |-> "dec", e |-> e, of |-> value]
Extenders == {"x"}
\* Two callbacks that can be told apart, for chains of extenders.
ExtenderChain == {"x", "y"}

NoUsage == [runs |-> 0, resolutions |-> 0, returned |-> {}]
Put(f, key, value) ==
  [x \in DOMAIN f \cup {key} |-> IF x = key THEN value ELSE f[x]]

\* The container as one value, and its write-back.
Cur == [bindings |-> bindings, aliases |-> aliases, tags |-> tags,
        extenders |-> extenders, usage |-> usage,
        factoryRuns |-> factoryRuns, extenderRuns |-> extenderRuns,
        serial |-> serial]
SetContainer(c) ==
  /\ bindings' = c.bindings
  /\ aliases' = c.aliases
  /\ tags' = c.tags
  /\ extenders' = c.extenders
  /\ usage' = c.usage
  /\ factoryRuns' = c.factoryRuns
  /\ extenderRuns' = c.extenderRuns
  /\ serial' = c.serial

BindIfAbsent(c, token, factory) ==
  IF token \in DOMAIN c.bindings THEN c
  ELSE [c EXCEPT !.bindings = Put(@, token, [factory |-> factory,
                                             singleton |-> FALSE,
                                             instance |-> Undef]),
                 !.usage = Put(@, token, NoUsage)]

\* bind(token, factory)
Bind(c, token, factory) ==
  [c EXCEPT !.bindings = Put(@, token, [factory |-> factory,
                                        singleton |-> FALSE,
                                        instance |-> Undef]),
            !.usage = Put(@, token, NoUsage)]

SingletonEager(c, token, factory) ==
  [c EXCEPT !.bindings = Put(@, token, [factory |-> factory,
                                        singleton |-> TRUE,
                                        instance |-> NewObj("f", c.serial + 1)]),
            !.serial = @ + 1,
            !.factoryRuns = @ + 1,
            !.usage = Put(@, token, [NoUsage EXCEPT !.runs = 1])]

\* singleton(token, factory)
Singleton(c, token, factory) ==
  [c EXCEPT !.bindings = Put(@, token, [factory |-> factory,
                                        singleton |-> TRUE,
                                        instance |-> Undef]),
            !.usage = Put(@, token, NoUsage)]

\* instance(token, value)
Instance(c, token, value) ==
  [c EXCEPT !.bindings = Put(@, token, [factory |-> FConst(value),
                                        singleton |-> TRUE,
                                        instance |-> value]),
            !.usage = Put(@, token, NoUsage)]

\* alias(token, alias)
Alias(c, token, alias) == [c EXCEPT !.aliases = Put(@, alias, token)]

GetAliasIdentity(c, token) == token

GetAliasTwoHops(c, token) ==
  LET first == IF token \in DOMAIN c.aliases /\ TruthyToken(c.aliases[token])
               THEN c.aliases[token]
               ELSE token
  IN IF first \in DOMAIN c.aliases /\ TruthyToken(c.aliases[first])
     THEN c.aliases[first]
     ELSE first

\* getAlias(token)
GetAlias(c, token) ==
  IF token \in DOMAIN c.aliases /\ TruthyToken(c.aliases[token])
  THEN c.aliases[token]
  ELSE token

TagOnce(c, token, tag) ==
  LET old == IF tag \in DOMAIN c.tags THEN c.tags[tag] ELSE <<>> IN
  [c EXCEPT !.tags =
     Put(@, tag, IF \E i \in 1..Len(old) : old[i] = token
                 THEN old ELSE Append(old, token))]

\* tag(token, tag)
Tag(c, token, tag) ==
  [c EXCEPT !.tags = Put(@, tag, Append(IF tag \in DOMAIN c.tags
                                        THEN c.tags[tag] ELSE <<>>, token))]

ExtendInvalidates(c, token, callback) ==
  LET originalToken == GetAlias(c, token) IN
  [c EXCEPT !.extenders =
     Put(@, originalToken, Append(IF originalToken \in DOMAIN c.extenders
                                  THEN c.extenders[originalToken] ELSE <<>>,
                                  callback)),
            !.bindings =
     IF originalToken \in DOMAIN @
     THEN [@ EXCEPT ![originalToken].instance = Undef]
     ELSE @]

\* extend(token, callback)
Extend(c, token, callback) ==
  LET originalToken == GetAlias(c, token) IN
  [c EXCEPT !.extenders =
     Put(@, originalToken, Append(IF originalToken \in DOMAIN c.extenders
                                  THEN c.extenders[originalToken] ELSE <<>>,
                                  callback))]

HasUnaliased(c, token) == token \in DOMAIN c.bindings

\* has(token)
Has(c, token) == GetAlias(c, token) \in DOMAIN c.bindings

\* ------------------------------------------------------- Container.make
NoBindingMsg(token) == <<"Container: no binding found for token", token>>
NoError == <<>>

\* One execution of a factory: `factory(this)`.
FactoryCall(factory) == [factory |-> factory, arg |-> TheContainer]
ProduceSame(c, factory) == NewObj("f", 0)
Produce(c, factory) ==
  CASE factory.k = "new" -> NewObj("f", c.serial + 1)
    [] factory.k = "undef" -> Undef
    [] factory.k = "const" -> factory.v
Built(factory) == IF factory.k = "new" THEN 1 ELSE 0

ExtendersOf(c, token) ==
  IF token \in DOMAIN c.extenders THEN c.extenders[token] ELSE <<>>

\* applyExtenders(token, instance): extenders.reduce(...)
RECURSIVE Reduce(_, _)
Reduce(callbacks, instance) ==
  IF callbacks = <<>> THEN instance
  ELSE Reduce(Tail(callbacks), Decorated(Head(callbacks), instance))

ApplyExtenders(c, token, instance) == Reduce(ExtendersOf(c, token), instance)

\* The outcome of a resolution: the container afterwards, the value
\* returned or the error thrown, and the factory executions it caused.
Returned(c, value, ran) ==
  [c |-> c, ok |-> TRUE, v |-> value, err |-> NoError, ran |-> ran]
Threw(c, err, ran) ==
  [c |-> c, ok |-> FALSE, v |-> Undef, err |-> err, ran |-> ran]

\* The n-th object built: `new constructor(...args)`.
Constructed(constructor, args, n) ==
  [t |-> "obj", by |-> constructor.s[1], n |-> n, args |-> args]

InstantiateOnce(c, constructor) ==
  Returned(c, Constructed(constructor, <<TheContainer>>, 0), <<>>)

\* instantiate(constructor): `new constructor(this)`
Instantiate(c, constructor) ==
  Returned([c EXCEPT !.serial = @ + 1],
           Constructed(constructor, <<TheContainer>>, c.serial + 1), <<>>)

\* The branch of make() that executes the factory and the extenders.
\* `keep` tells whether the result is stored in binding.instance.
RunFactory(c, originalToken, keep) ==
  LET binding == c.bindings[originalToken]
      instance == ApplyExtenders(c, originalToken, Produce(c, binding.factory))
  IN Returned(
       [c EXCEPT !.serial = @ + Built(binding.factory),
                 !.factoryRuns = @ + 1,
                 !.extenderRuns = @ + Len(ExtendersOf(c, originalToken)),
                 !.bindings[originalToken].instance =
                    IF keep THEN instance ELSE @,
                 !.usage[originalToken] =
                    [runs |-> @.runs + 1,
                     resolutions |-> @.resolutions + 1,
                     returned |-> @.returned \cup {instance}]],
       instance, <<FactoryCall(binding.factory)>>)

\* The test `binding.instance === undefined` of the singleton branch.
NotCached(binding) == binding.instance = Undef

MakeUnaliased(c, token) ==
  IF token \notin DOMAIN c.bindings
  THEN IF IsCtor(token)
       THEN Instantiate(c, token)
       ELSE Threw(c, NoBindingMsg(token), <<>>)
  ELSE LET binding == c.bindings[token] IN
       IF binding.singleton /\ ~NotCached(binding)
       THEN Returned(c, binding.instance, <<>>)
       ELSE RunFactory(c, token, binding.singleton)

\* make(token)
Make(c, token) ==
  LET originalToken == GetAlias(c, token) IN
  IF originalToken \notin DOMAIN c.bindings
  THEN IF IsCtor(originalToken)
       THEN Instantiate(c, originalToken)
       ELSE Threw(c, NoBindingMsg(token), <<>>)
  ELSE LET binding == c.bindings[originalToken] IN
       IF binding.singleton
       THEN IF NotCached(binding)
            THEN RunFactory(c, originalToken, TRUE)
            ELSE Returned(
                   [c EXCEPT !.usage[originalToken] =
                      [@ EXCEPT !.resolutions = @ + 1,
                                !.returned = @ \cup {binding.instance}]],
                   binding.instance, <<>>)
       ELSE RunFactory(c, originalToken, FALSE)

\* tagged(tag): tokens.map(token => this.make(token)); the first make that
\* throws ends the map.
RECURSIVE MakeAll(_, _, _, _)
MakeAll(c, tokens, values, ran) ==
  IF tokens = <<>> THEN Returned(c, [t |-> "array", items |-> values], ran)
  ELSE LET m == Make(c, Head(tokens)) IN
       IF m.ok
       THEN MakeAll(m.c, Tail(tokens), Append(values, m.v), ran \o m.ran)
       ELSE Threw(m.c, m.err, ran \o m.ran)

Tagged(c, tag) ==
  MakeAll(c, IF tag \in DOMAIN c.tags THEN c.tags[tag] ELSE <<>>, <<>>, <<>>)

\* ----------------------------------------------------- Application.make
\* `typeof token === 'string' && token.startsWith('config.')`
IsConfigToken(token) ==
  /\ token.k = "str"
  /\ Len(token.s) >= 2
  /\ token.s[1] = "config"

ConfigKeyWhole(token) == token.s
\* token.substring(7), split at the dots by Repository.get
ConfigKey(token) == Tail(token.s)

AppMakeConfigFirst(c, cfg, token) ==
  IF IsConfigToken(token) /\ RepoGet(cfg, ConfigKey(token), Undef) # Undef
  THEN Returned(c, RepoGet(cfg, ConfigKey(token), Undef), <<>>)
  ELSE Make(c, token)

AppMake(c, cfg, token) ==
  IF Has(c, token) THEN Make(c, token)
  ELSE IF IsConfigToken(token) /\ RepoGet(cfg, ConfigKey(token), Undef) # Undef
       THEN Returned(c, RepoGet(cfg, ConfigKey(token), Undef), <<>>)
       ELSE Make(c, token)

\* ------------------------------------------------- container operations
Answer(op, token, m) ==
  [op |-> op, token |-> token, ok |-> m.ok, v |-> m.v, err |-> m.err,
   ran |-> m.ran]
NoAnswer ==
  [op |-> "none", token |-> TagG, ok |-> TRUE, v |-> Undef, err |-> NoError,
   ran |-> <<>>]

\* An operation that registers something and returns nothing.
Registers(c) ==
  /\ ops < MaxOps
  /\ ops' = ops + 1
  /\ UNCHANGED <<ret, config, lifecycleVars, readVars, termVars, envVars>>
  /\ SetContainer(c)

\* An operation that returns (or throws) something.
Answers(op, token, m) ==
  /\ ops < MaxOps
  /\ ops' = ops + 1
  /\ ret' = Answer(op, token, m)
  /\ UNCHANGED <<config, lifecycleVars, readVars, termVars, envVars>>
  /\ SetContainer(m.c)

CBind(token, factory) == Registers(Bind(Cur, token, factory))
CSingleton(token, factory) == Registers(Singleton(Cur, token, factory))
CInstance(token, value) == Registers(Instance(Cur, token, value))
CAlias(token, alias) == Registers(Alias(Cur, token, alias))
CTag(token, tag) == Registers(Tag(Cur, token, tag))
CExtend(token, callback) == Registers(Extend(Cur, token, callback))
CHas(token) ==
  Answers("has", token,
          Returned(Cur, [t |-> "bool", b |-> Has(Cur, token)], <<>>))
CMake(token) == Answers("make", token, Make(Cur, token))
CTagged(tag) == Answers("tagged", tag, Tagged(Cur, tag))
CAppMake(token) == Answers("app.make", token, AppMake(Cur, config, token))

InitContainer ==
  /\ bindings = (TokApplication :> [factory |-> FConst(TheApp),
                                    singleton |-> TRUE, instance |-> TheApp])
             @@ (TokContainer :> [factory |-> FConst(TheContainer),
                                  singleton |-> TRUE,
                                  instance |-> TheContainer])
             @@ (TokRepository :> [factory |-> FConst(TheRepository),
                                   singleton |-> TRUE,
                                   instance |-> TheRepository])
  /\ aliases = <<>>
  /\ tags = <<>>
  /\ extenders = <<>>
  /\ usage = [t \in {TokApplication, TokContainer, TokRepository} |-> NoUsage]
  /\ factoryRuns = 0
  /\ extenderRuns = 0
  /\ serial = 0
  /\ ops = 0
  /\ ret = NoAnswer

\* ============================================================ Repository
\* The configuration of the repository tests: nested mappings, a string
\* and a null.
AppTest == Obj([name |-> Str("Test App"), nothing |-> Null])
DbTest == Obj([host |-> Str("localhost")])
DirTest == [exists |-> TRUE, files |-> [app |-> AppTest, db |-> DbTest]]
RDirs == {DirMissing, DirTest, DirBroken}

\* The dotted keys asked for, split at the dots.
Keys == {<<"missing">>, <<"db">>, <<"app", "name">>, <<"app", "missing">>,
         <<"app", "nothing">>, <<"app", "nothing", "x">>,
         <<"app", "name", "x">>, <<"app", "name", "length">>,
         <<"app", "constructor">>, <<"db", "host", "x", "y">>}
Defaults == {Undef, Str("default")}

Bool(b) == [t |-> "bool", b |-> b]
Read(op, key, def, v) == [op |-> op, key |-> key, def |-> def, v |-> v]
NoRead == Read("none", <<>>, Undef, Undef)

\* The mapping all() returned, as the caller holds it: per top-level key
\* either the very object the repository holds under that key (shared) or
\* a value of the caller's own.
NoCopy == [held |-> FALSE, top |-> <<>>]
Shared(value) == [shared |-> TRUE, v |-> value]
Own(value) == [shared |-> FALSE, v |-> value]

\* all(): `{ ...this.config }` copies the root mapping; the values under
\* its keys are the repository's own objects.
All(tree) ==
  [held |-> TRUE,
   top |-> [k \in DOMAIN tree |->
              IF tree[k].t = "map" THEN Shared(tree[k]) ELSE Own(tree[k])]]

\* What the caller sees in the mapping it holds.
View(cp, tree) ==
  Obj([k \in DOMAIN cp.top |->
         IF cp.top[k].shared THEN tree[k] ELSE cp.top[k].v])

InitReads == got = NoRead /\ copy = NoCopy

Reads(answer) ==
  /\ got' = answer
  /\ UNCHANGED <<config, copy, lifecycleVars, containerVars, termVars, envVars>>

\* get(key, defaultValue)
RGet(key, def) == Reads(Read("get", key, def, RepoGet(config, key, def)))
\* has(key)
RHas(key) ==
  Reads(Read("has", key, Undef, Bool(RepoGet(config, key, Undef) # Undef)))
\* isBooted()
RIsBooted == Reads(Read("isBooted", <<>>, Undef, Bool(repoBooted)))
\* all()
RAll ==
  /\ got' = Read("all", <<>>, Undef, Obj(config))
  /\ copy' = All(config)
  /\ UNCHANGED <<config, lifecycleVars, containerVars, termVars, envVars>>
\* markAsBooted()
RMarkAsBooted ==
  /\ repoBooted' = TRUE
  /\ UNCHANGED <<providers, instances, booted, config, envTZ, nodeEnv, runs,
                 log, thrown, containerVars, readVars, termVars, envVars>>

\* The caller assigns to a top-level key of the mapping it holds:
\* `all[k] = value`.
CallerSetsTop(k, value) ==
  /\ copy.held
  /\ copy' = [copy EXCEPT !.top = Put(@, k, Own(value))]
  /\ UNCHANGED <<config, got, lifecycleVars, containerVars, termVars, envVars>>

\* The caller assigns inside the mapping under a top-level key:
\* `all[k][k2] = value`. A shared mapping is the repository's own.
CallerSetsNested(k, k2, value) ==
  /\ copy.held
  /\ k \in DOMAIN copy.top
  /\ IF copy.top[k].shared
     THEN /\ config' = [config EXCEPT ![k] = Obj(Put(@.m, k2, value))]
          /\ UNCHANGED copy
     ELSE /\ copy.top[k].v.t = "map"
          /\ copy' = [copy EXCEPT !.top[k] = Own(Obj(Put(@.v.m, k2, value)))]
          /\ UNCHANGED config
  /\ UNCHANGED <<got, lifecycleVars, containerVars, termVars, envVars>>

\* =========================================================== EnvLoader
\* Strings are sequences of characters here, so that trim(), indexOf(),
\* substring() and the regular expression can be followed.

RECURSIVE TrimStart(_)
TrimStart(str) ==
  IF str # <<>> /\ Head(str) = " " THEN TrimStart(Tail(str)) ELSE str
RECURSIVE TrimEnd(_)
TrimEnd(str) ==
  IF str # <<>> /\ str[Len(str)] = " "
  THEN TrimEnd(SubSeq(str, 1, Len(str) - 1))
  ELSE str
\* str.trim()
Trim(str) == TrimEnd(TrimStart(str))
\* str.startsWith(ch), str.endsWith(ch)
StartsWith(str, ch) == str # <<>> /\ Head(str) = ch
EndsWith(str, ch) == str # <<>> /\ str[Len(str)] = ch
\* str.indexOf(ch): the 0-based position of the first ch, -1 without one
IndexOf(str, ch) ==
  IF \E i \in 1..Len(str) : str[i] = ch
  THEN (CHOOSE i \in 1..Len(str) :
          str[i] = ch /\ \A j \in 1..(i - 1) : str[j] # ch) - 1
  ELSE -1
\* str.substring(start, end): 0-based, end excluded, the arguments clamped
\* to the string and swapped when start > end
Substring(str, start, end) ==
  LET Clamp(n) == IF n < 0 THEN 0 ELSE IF n > Len(str) THEN Len(str) ELSE n
      a == Clamp(start)
      b == Clamp(end)
  IN SubSeq(str, (IF a <= b THEN a ELSE b) + 1, IF a <= b THEN b ELSE a)

\* trimmedLine.match(/^([^=]+)=(.*)$/)
Match(trimmedLine) ==
  LET at == IndexOf(trimmedLine, "=") IN
  IF at >= 1
  THEN [ok |-> TRUE,
        key |-> Substring(trimmedLine, 0, at),
        value |-> Substring(trimmedLine, at + 1, Len(trimmedLine))]
  ELSE [ok |-> FALSE, key |-> <<>>, value |-> <<>>]

\* The inline-comment step: a value that does not start with a quote ends
\* before its first '#'.
StripComment(value) ==
  IF ~StartsWith(value, "\"") /\ ~StartsWith(value, "'")
       /\ IndexOf(value, "#") # -1
  THEN Trim(Substring(value, 0, IndexOf(value, "#")))
  ELSE value

\* The quote step: a value that starts and ends with the same quote loses
\* its first and last character.
Unquote(value) ==
  IF \/ StartsWith(value, "\"") /\ EndsWith(value, "\"")
     \/ StartsWith(value, "'") /\ EndsWith(value, "'")
  THEN Substring(value, 1, Len(value) - 1)
  ELSE value

\* What one line of the file asks for: nothing (blank, comment, no match)
\* or key := value.
ParseLine(line) ==
  LET trimmedLine == Trim(line) IN
  IF trimmedLine = <<>> \/ StartsWith(trimmedLine, "#")
  THEN [ok |-> FALSE, key |-> <<>>, value |-> <<>>]
  ELSE LET match == Match(trimmedLine) IN
       IF match.ok
       THEN [ok |-> TRUE,
             key |-> Trim(match.key),
             value |-> Unquote(StripComment(Trim(match.value)))]
       ELSE match

LoadLineOverwrites(e, line) ==
  LET parsed == ParseLine(line) IN
  IF parsed.ok THEN Put(e, parsed.key, parsed.value) ELSE e

\* One turn of the loop over the lines:
\* `if (process.env[key] === undefined) process.env[key] = value`.
LoadLine(e, line) ==
  LET parsed == ParseLine(line) IN
  IF parsed.ok /\ parsed.key \notin DOMAIN e
  THEN Put(e, parsed.key, parsed.value)
  ELSE e

RECURSIVE LoadLines(_, _)
LoadLines(e, lines) ==
  IF lines = <<>> THEN e
  ELSE LoadLines(LoadLine(e, Head(lines)), Tail(lines))

\* EnvLoader.load(directory): a missing file returns at once, a read that
\* throws is caught.
EnvLoad(e, file) ==
  IF ~file.exists THEN e
  ELSE IF ~file.readable THEN e
  ELSE LoadLines(e, file.lines)

NoEnv == <<>>
FileMissing == [exists |-> FALSE, readable |-> FALSE, lines |-> <<>>]

\* The lines a .env file is made of.
Lines ==
  { <<"A", "=", "1">>,
    <<"A", "=", "2">>,
    <<" ", "A", " ", "=", " ", "3", " ">>,
    <<"A", "=">>,
    <<"B", "=", "x">>,
    <<"B", "=", "x", " ", "#", "c">>,
    <<"B", "=", "'", "q", "'">>,
    <<"B", "=", "\"", "q", "\"", " ", "#", "c">>,
    <<"#", "A", "=", "9">>,
    <<>>,
    <<"=", "1">>,
    <<"A">> }
RECURSIVE Texts(_)
Texts(n) ==
  IF n = 0 THEN {<<>>}
  ELSE Texts(n - 1) \cup {Append(t, l) : t \in Texts(n - 1), l \in Lines}
Readable(lines) == [exists |-> TRUE, readable |-> TRUE, lines |-> lines]
Unreadable(lines) == [exists |-> TRUE, readable |-> FALSE, lines |-> lines]
Files ==
  {FileMissing} \cup {Readable(t) : t \in Texts(MaxLines)}
                \cup {Unreadable(t) : t \in Texts(MaxLines)}
\* The process environment before the load: the key absent, or set - also
\* to the empty string.
Envs ==
  { NoEnv,
    <<"A">> :> <<"0">>,
    <<"A">> :> <<>>,
    <<"B">> :> <<"0">> }

\* A call of EnvLoader.load(basePath).
Load ==
  /\ env' = EnvLoad(env, dotenv)
  /\ UNCHANGED <<dotenv, diskVars, globalVars>>
  /\ UNCHANGED <<config, lifecycleVars, containerVars, readVars, termVars>>

\* ================================================= the config directory
\* What loadConfigDirectory finds at configPath: nothing, something that
\* readdirSync cannot list (a regular file), or a directory, whose entries
\* are listed in the order readdirSync returns them. An entry is a file
\* name (base name and extension) and what require() of it gives: a value,
\* or Throws.
Throws == [t |-> "throws"]
PathMissing == [kind |-> "missing", entries |-> <<>>]
PathIsFile == [kind |-> "file", entries |-> <<>>]
Directory(entries) == [kind |-> "dir", entries |-> entries]
NotADirectoryMsg == "ENOTDIR: not a directory, scandir"

FileNames == {[base |-> "app", ext |-> ".js"], [base |-> "app", ext |-> ".ts"],
              [base |-> "db", ext |-> ".js"], [base |-> "notes", ext |-> ".json"]}
Modules ==
  { Obj([name |-> Str("a")]),
    Obj([default |-> Obj([name |-> Str("d")])]),
    Obj([default |-> Null]),
    Obj([default |-> Str("x")]),
    Str("x"),
    Null,
    Throws }
Entries == {[file |-> f, module |-> m] : f \in FileNames, m \in Modules}
RECURSIVE Listings(_)
Listings(n) ==
  IF n = 0 THEN {<<>>}
  ELSE Listings(n - 1)
         \cup {Append(l, e) : l \in Listings(n - 1), e \in Entries}
Paths == {PathMissing, PathIsFile} \cup {Directory(l) : l \in Listings(MaxFiles)}

\* file.endsWith('.js') || file.endsWith('.ts')
IsConfigFile(file) == file.ext \in {".js", ".ts"}

\* `configModule.default || configModule`
ConfigValue(configModule) ==
  IF Truthy(Index(configModule, "default"))
  THEN Index(configModule, "default")
  ELSE configModule

\* One turn of the loop over configFiles: require() throwing, and reading
\* .default of null, end in the empty catch block.
LoadFile(tree, entry) ==
  IF entry.module = Throws \/ entry.module \in {Null, Undef} THEN tree
  ELSE IF ConfigValue(entry.module).t = "map"
       THEN Put(tree, entry.file.base, ConfigValue(entry.module))
       ELSE tree

RECURSIVE LoadFiles(_, _)
LoadFiles(tree, entries) ==
  IF entries = <<>> THEN tree
  ELSE IF IsConfigFile(Head(entries).file)
       THEN LoadFiles(LoadFile(tree, Head(entries)), Tail(entries))
       ELSE LoadFiles(tree, Tail(entries))

\* loadConfigDirectory(configPath) of a repository by itself, with the
\* disk as it is.
LoadConfigPath ==
  /\ UNCHANGED <<containerVars, readVars, termVars, envVars>>
  /\ UNCHANGED <<providers, instances, booted, repoBooted, envTZ, nodeEnv,
                 runs, log>>
  /\ IF ConfigFrozen
     THEN thrown' = ConfigModifiedMsg /\ UNCHANGED config
     ELSE IF configDir.kind = "missing"
     THEN UNCHANGED <<config, thrown>>
     ELSE IF configDir.kind = "file"
     THEN thrown' = NotADirectoryMsg /\ UNCHANGED config
     ELSE /\ config' = LoadFiles(config, configDir.entries)
          /\ UNCHANGED thrown

\* No cached configuration, no config directory.
CacheMissing == [exists |-> FALSE, parses |-> FALSE, data |-> <<>>]
InitDisk == configDir = PathMissing /\ cachedConfig = CacheMissing
\* No Application constructed yet.
InitGlobals ==
  /\ appInstance = 0
  /\ activeRepo = 0
  /\ apps = <<>>
  /\ repos = <<>>

\* ------------------------------------------------ Application.constructor
\* What is at the cached-configuration path: nothing, a file that cannot be
\* read or parsed, or a file that parses to `data`.
CacheBroken == [exists |-> TRUE, parses |-> FALSE, data |-> <<>>]
CacheOf(data) == [exists |-> TRUE, parses |-> TRUE, data |-> data]
Snapshot == [app |-> Obj([name |-> Str("cached")])]
Caches == {CacheMissing, CacheBroken, CacheOf(Snapshot)}
KPaths ==
  { PathMissing, PathIsFile,
    Directory(<<[file |-> [base |-> "app", ext |-> ".js"],
                 module |-> Obj([name |-> Str("a")])]>>) }
KFiles == {FileMissing, Readable(<<<<"A", "=", "1">>>>)}

\* A Repository object: its tree and its booted flag. `new Repository()`
\* starts empty; `new Repository(data)` starts with data as its tree.
Repo(tree) == [config |-> tree, booted |-> FALSE]
RepositoryOf(data) == Repo(data)

NoInstanceMsg == "Application instance has not been created yet."

\* The constructor up to the configuration step: the new application a
\* and its first repository r are made, the static pointer and the
\* helper's repository are set, the container holds r under the
\* Repository token, and .env is loaded.
Constructing(a, r, configRepository, constructed) ==
  /\ appInstance' = a
  /\ activeRepo' = r
  /\ apps' = Append(apps, [configRepository |-> configRepository,
                           repository |-> r,
                           constructed |-> constructed])
  /\ env' = EnvLoad(env, dotenv)

\* The configuration step on repository r: the directory scan.
ScansDirectory(a, r) ==
  IF configDir.kind = "file"
  THEN /\ Constructing(a, r, r, FALSE)
       /\ repos' = Append(repos, Repo(<<>>))
       /\ thrown' = NotADirectoryMsg
  ELSE /\ Constructing(a, r, r, TRUE)
       /\ repos' = Append(repos,
                          Repo(IF configDir.kind = "missing" THEN <<>>
                               ELSE LoadFiles(<<>>, configDir.entries)))
       /\ UNCHANGED thrown

\* The configuration step with a cache that parses: a second repository
\* is made from the data and becomes this.configRepository.
UsesCache(a, r) ==
  /\ Constructing(a, r, r + 1, TRUE)
  /\ repos' = repos \o <<Repo(<<>>), RepositoryOf(cachedConfig.data)>>
  /\ UNCHANGED thrown

\* new Application(basePath)
NewApplication ==
  /\ Len(apps) < MaxApps
  /\ LET a == Len(apps) + 1
         r == Len(repos) + 1
     IN IF cachedConfig.exists /\ cachedConfig.parses
        THEN UsesCache(a, r)
        ELSE ScansDirectory(a, r)
  /\ UNCHANGED <<dotenv, diskVars>>
  /\ UNCHANGED <<providers, instances, booted, config, repoBooted, envTZ,
                 nodeEnv, runs, log>>
  /\ UNCHANGED <<containerVars, readVars, termVars>>

\* Application.getInstance()
GetInstance ==
  /\ IF appInstance = 0
     THEN thrown' = NoInstanceMsg /\ UNCHANGED got
     ELSE /\ got' = Read("getInstance", <<>>, Undef,
                         [t |-> "app", n |-> appInstance])
          /\ UNCHANGED thrown
  /\ UNCHANGED <<providers, instances, booted, config, repoBooted, envTZ,
                 nodeEnv, runs, log, copy>>
  /\ UNCHANGED <<containerVars, termVars, envVars>>

\* config(key, defaultValue), the helper of support/config.ts
ConfigHelper(key, defaultValue) ==
  /\ got' = Read("config", key, defaultValue,
                 IF activeRepo = 0 THEN defaultValue
                 ELSE RepoGet(repos[activeRepo].config, key, defaultValue))
  /\ UNCHANGED <<config, copy, lifecycleVars, containerVars, termVars,
                 envVars>>

\* app.config().get(key, defaultValue) on application a
AppConfigGet(a, key, defaultValue) ==
  /\ a \in 1..Len(apps)
  /\ apps[a].constructed
  /\ got' = Read("app.config.get", key, defaultValue,
                 RepoGet(repos[apps[a].configRepository].config, key,
                         defaultValue))
  /\ UNCHANGED <<config, copy, lifecycleVars, containerVars, termVars,
                 envVars>>

\* app.config().loadConfigDirectory(<basePath>/config) on application a
AppConfigLoad(a) ==
  /\ a \in 1..Len(apps)
  /\ apps[a].constructed
  /\ LET r == apps[a].configRepository IN
     IF repos[r].booted
     THEN thrown' = ConfigModifiedMsg /\ UNCHANGED repos
     ELSE IF configDir.kind = "file"
     THEN thrown' = NotADirectoryMsg /\ UNCHANGED repos
     ELSE /\ repos' = [repos EXCEPT ![r].config =
                         IF configDir.kind = "missing" THEN @
                         ELSE LoadFiles(@, configDir.entries)]
          /\ UNCHANGED thrown
  /\ UNCHANGED <<env, dotenv, diskVars, appInstance, activeRepo, apps>>
  /\ UNCHANGED <<providers, instances, booted, config, repoBooted, envTZ,
                 nodeEnv, runs, log>>
  /\ UNCHANGED <<containerVars, readVars, termVars>>

\* app.config().markAsBooted() on application a
AppConfigMarkAsBooted(a) ==
  /\ a \in 1..Len(apps)
  /\ apps[a].constructed
  /\ repos' = [repos EXCEPT ![apps[a].configRepository].booted = TRUE]
  /\ UNCHANGED <<env, dotenv, diskVars, appInstance, activeRepo, apps>>
  /\ UNCHANGED <<config, lifecycleVars, containerVars, readVars, termVars>>

\* The disk changes between two constructions: the cache artifact is
\* written or removed, the config directory replaced.
DiskChanges(dir, cache) ==
  /\ <<dir, cache>> # <<configDir, cachedConfig>>
  /\ configDir' = dir
  /\ cachedConfig' = cache
  /\ UNCHANGED <<env, dotenv, globalVars>>
  /\ UNCHANGED <<config, lifecycleVars, containerVars, readVars, termVars>>

\* An application built in a base path without a .env file.
InitEnv == env = NoEnv /\ dotenv = FileMissing /\ InitDisk /\ InitGlobals

\* ================================================ Application.terminate
\* The callbacks handed to onTerminate(), and the invocations of
\* terminate() that are followed: a first one and a second one, which may
\* start while the first is still awaiting a callback.
Callbacks == {"c1", "c2"}
Terms == {1, 2}
TIdle == [pc |-> "idle", idx |-> 0, st |-> "none"]

InitTerm ==
  /\ terminatingCallbacks = <<>>
  /\ terminations = [t \in Terms |-> TIdle]
  /\ termLog = [t \in Terms |-> <<>>]

OnTerminatePrepends(callback) ==
  /\ Len(terminatingCallbacks) < MaxCallbacks
  /\ terminatingCallbacks' = <<callback>> \o terminatingCallbacks
  /\ UNCHANGED <<terminations, termLog>>
  /\ UNCHANGED <<config, lifecycleVars, containerVars, readVars, envVars>>

\* onTerminate(callback)
OnTerminate(callback) ==
  /\ Len(terminatingCallbacks) < MaxCallbacks
  /\ terminatingCallbacks' = Append(terminatingCallbacks, callback)
  /\ UNCHANGED <<terminations, termLog>>
  /\ UNCHANGED <<config, lifecycleVars, containerVars, readVars, envVars>>

TermEvent(ev, i) == [ev |-> ev, i |-> i, cb |-> terminatingCallbacks[i]]

\* The for-loop of terminate() at position i: call the i-th callback and
\* await it, or leave the loop and return.
Drain(t, rec, i) ==
  IF i <= Len(terminatingCallbacks)
  THEN /\ terminations' = [terminations EXCEPT
                             ![t] = [rec EXCEPT !.pc = "callback", !.idx = i,
                                                !.st = "pending"]]
       /\ termLog' = [termLog EXCEPT ![t] = Append(@, TermEvent("call", i))]
  ELSE /\ terminations' = [terminations EXCEPT
                             ![t] = [rec EXCEPT !.pc = "done", !.st = "none"]]
       /\ UNCHANGED termLog

TerminateClearsBooted(t) ==
  /\ terminations[t].pc = "idle"
  /\ \A q \in 1..(t - 1) : terminations[q].pc # "idle"
  /\ Drain(t, terminations[t], 1)
  /\ booted' = FALSE
  /\ UNCHANGED terminatingCallbacks
  /\ UNCHANGED <<providers, instances, repoBooted, envTZ, nodeEnv, runs, log,
                 thrown>>
  /\ UNCHANGED <<config, containerVars, readVars, envVars>>

TerminateWhenBooted(t) ==
  /\ booted
  /\ terminations[t].pc = "idle"
  /\ \A q \in 1..(t - 1) : terminations[q].pc # "idle"
  /\ Drain(t, terminations[t], 1)
  /\ UNCHANGED terminatingCallbacks
  /\ UNCHANGED <<config, lifecycleVars, containerVars, readVars, envVars>>

\* A call of terminate(), up to its first await (or to its end).
Terminate(t) ==
  /\ terminations[t].pc = "idle"
  /\ \A q \in 1..(t - 1) : terminations[q].pc # "idle"
  /\ Drain(t, terminations[t], 1)
  /\ UNCHANGED terminatingCallbacks
  /\ UNCHANGED <<config, lifecycleVars, containerVars, readVars, envVars>>

\* The promise of the callback that invocation t awaits settles: it
\* resolves, or it rejects (the callback threw).
TSettle(t, outcome) ==
  /\ terminations[t].st = "pending"
  /\ terminations' = [terminations EXCEPT ![t].st = outcome]
  /\ termLog' = [termLog EXCEPT
                   ![t] = Append(@, TermEvent(outcome, terminations[t].idx))]
  /\ UNCHANGED terminatingCallbacks
  /\ UNCHANGED <<config, lifecycleVars, containerVars, readVars, envVars>>

\* The continuation after `await callback()`: the loop goes on with the
\* next callback, or terminate() rejects with what the callback threw.
TResume(t) ==
  /\ terminations[t].st \in {"resolved", "rejected"}
  /\ IF terminations[t].st = "rejected"
     THEN /\ terminations' = [terminations EXCEPT ![t].pc = "failed",
                                                  ![t].st = "none"]
          /\ UNCHANGED termLog
     ELSE Drain(t, terminations[t], terminations[t].idx + 1)
  /\ UNCHANGED terminatingCallbacks
  /\ UNCHANGED <<config, lifecycleVars, containerVars, readVars, envVars>>

\* The state after `new Application(basePath)`.
Init == InitLifecycle /\ InitContainer /\ InitReads /\ InitTerm /\ InitEnv

Next ==
  \/ \E p \in ProviderArgs : AppRegister(p)
  \/ \E r \in Runs : Boot(r)
  \/ \E r \in Runs : Run(r)
  \/ \E r \in Runs, o \in {"resolved", "rejected"} : Settle(r, o)
  \/ \E r \in Runs : Resume(r)
  \/ \E d \in Dirs : LoadConfigDirectory(d)

Spec == Init /\ [][Next]_vars

\* The container operations, on an application that is not booting. The
\* alias name differs from the token it names; a self-alias resolves to
\* the token itself, as no alias does.
NextC ==
  \/ \E t \in Bindable : CBind(t, FNew)
  \/ \E t \in Bindable, f \in Factories : CSingleton(t, f)
  \/ \E t \in Bindable, v \in InstanceValues : CInstance(t, v)
  \/ \E t \in Tokens : \E a \in Tokens \ {t} : CAlias(t, a)
  \/ \E t \in Tokens : CTag(t, TagG)
  \/ \E t \in Tokens, e \in Extenders : CExtend(t, e)
  \/ \E t \in Tokens : CHas(t)
  \/ \E t \in Tokens : CMake(t)
  \/ CTagged(TagG)
  \/ \E t \in Tokens : CAppMake(t)

InitC == Init /\ nodeEnv = "development"

SpecC == InitC /\ [][NextC]_vars

\* The container with every alias declaration (chains, cycles and
\* self-aliases included), chains of two extenders, and a tag that is
\* never used.
NextD ==
  \/ \E t \in Bindable : CBind(t, FNew)
  \/ \E t \in Bindable, f \in Factories : CSingleton(t, f)
  \/ \E t \in Bindable : CInstance(t, Str("v"))
  \/ \E t \in Tokens, a \in Tokens : CAlias(t, a)
  \/ \E t \in Tokens : CTag(t, TagG)
  \/ \E t \in Tokens, e \in ExtenderChain : CExtend(t, e)
  \/ \E t \in Tokens : CHas(t)
  \/ \E t \in Tokens : CMake(t)
  \/ \E g \in {TagG, TagH} : CTagged(g)

InitD ==
  /\ InitWith({DirMissing})
  /\ InitContainer
  /\ InitReads
  /\ InitTerm
  /\ InitEnv
  /\ nodeEnv = "development"

SpecD == InitD /\ [][NextD]_vars

\* Termination alongside boot()/run() of an application without
\* providers.
InitT ==
  /\ InitWith({DirFull})
  /\ InitContainer
  /\ InitReads
  /\ InitTerm
  /\ InitEnv
  /\ nodeEnv = "development"

NextT ==
  \/ \E c \in Callbacks : OnTerminate(c)
  \/ \E t \in Terms : Terminate(t)
  \/ \E t \in Terms, o \in {"resolved", "rejected"} : TSettle(t, o)
  \/ \E t \in Terms : TResume(t)
  \/ \E r \in Runs : Boot(r)
  \/ \E r \in Runs : Run(r)

SpecT == InitT /\ [][NextT]_vars

\* The application as a whole: the lifecycle over its providers, then -
\* at a moment when no boot()/run() is awaiting a provider - termination
\* or a resolution.
Quiescent == \A r \in Runs : runs[r].st = "none"
Untouched ==
  /\ terminatingCallbacks = <<>>
  /\ terminations = [t \in Terms |-> TIdle]
  /\ ops = 0

NextA ==
  \/ \E p \in ProviderArgs : Untouched /\ AppRegister(p)
  \/ \E r \in Runs : Untouched /\ Boot(r)
  \/ \E r \in Runs : Untouched /\ Run(r)
  \/ \E r \in Runs, o \in {"resolved", "rejected"} : Settle(r, o)
  \/ \E r \in Runs : Resume(r)
  \/ Quiescent /\ ops = 0 /\ OnTerminate("c1")
  \/ Quiescent /\ ops = 0 /\ Terminate(1)
  \/ \E o \in {"resolved", "rejected"} : TSettle(1, o)
  \/ TResume(1)
  \/ Quiescent /\ terminations[1].pc = "idle" /\ CAppMake(TokA)
  \/ Untouched /\ Quiescent /\ ~repoBooted /\ RMarkAsBooted
  \/ Untouched /\ repoBooted /\ LoadConfigDirectory(DirTzOnly)

SpecA == InitT /\ [][NextA]_vars

\* Registration and resolution only: the operations that write a binding,
\* the ones that change what a resolution reaches or returns, and make.
NextB ==
  \/ \E t \in Bindable : CBind(t, FNew)
  \/ \E t \in Bindable, f \in Factories : CSingleton(t, f)
  \/ \E t \in Bindable, v \in InstanceValues : CInstance(t, v)
  \/ \E t \in Tokens : \E a \in Tokens \ {t} : CAlias(t, a)
  \/ \E t \in Tokens, e \in Extenders : CExtend(t, e)
  \/ \E t \in Tokens : CMake(t)

SpecB == InitD /\ [][NextB]_vars

\* A repository by itself, loading from whatever is at the config path.
InitL ==
  /\ InitWith({DirMissing, DirTest})
  /\ InitContainer
  /\ InitReads
  /\ InitTerm
  /\ nodeEnv = "development"
  /\ env = NoEnv
  /\ dotenv = FileMissing
  /\ configDir \in Paths
  /\ cachedConfig = CacheMissing
  /\ InitGlobals

NextL ==
  \/ LoadConfigPath
  \/ RMarkAsBooted

SpecL == InitL /\ [][NextL]_vars

\* Construction of applications, the static pointer and the config helper.
KKeys == {<<"app", "name">>, <<"app", "missing">>}
InitK ==
  /\ InitWith({DirMissing})
  /\ InitContainer
  /\ InitReads
  /\ InitTerm
  /\ nodeEnv = "development"
  /\ env = NoEnv
  /\ dotenv \in KFiles
  /\ configDir \in KPaths
  /\ cachedConfig \in Caches
  /\ InitGlobals

NextK ==
  \/ NewApplication
  \/ GetInstance
  \/ \E k \in KKeys : ConfigHelper(k, Str("default"))
  \/ \E a \in 1..MaxApps, k \in KKeys : AppConfigGet(a, k, Str("default"))
  \/ \E a \in 1..MaxApps : AppConfigLoad(a)
  \/ \E a \in 1..MaxApps : AppConfigMarkAsBooted(a)
  \/ \E d \in KPaths, c \in Caches : DiskChanges(d, c)

SpecK == InitK /\ [][NextK]_vars

\* The environment loader, from every environment and every .env file.
InitE ==
  /\ InitWith({DirMissing})
  /\ InitContainer
  /\ InitReads
  /\ InitTerm
  /\ nodeEnv = "development"
  /\ env \in Envs
  /\ dotenv \in Files
  /\ InitDisk
  /\ InitGlobals

NextE == Load

SpecE == InitE /\ [][NextE]_vars

\* The repository on its own: loads, the freeze, reads, and a caller that
\* writes into the mapping all() gave it. Directories are loaded before
\* the caller takes that mapping, or after the freeze.
InitR ==
  /\ InitWith({DirMissing, DirTest})
  /\ InitContainer
  /\ InitReads
  /\ InitTerm
  /\ InitEnv
  /\ nodeEnv = "development"

NextR ==
  \/ \E d \in RDirs : (copy.held => repoBooted) /\ LoadConfigDirectory(d)
  \/ RMarkAsBooted
  \/ \E k \in Keys, d \in Defaults : RGet(k, d)
  \/ \E k \in Keys : RHas(k)
  \/ RIsBooted
  \/ RAll
  \/ CallerSetsTop("app", Str("mine"))
  \/ CallerSetsNested("app", "name", Str("changed"))

SpecR == InitR /\ [][NextR]_vars

\* ======================================================================
\* Properties of the lifecycle (checked under Spec)
\* ======================================================================

\* How many calls of provider method `op` invocation r has made.
CallsMade(r, op) ==
  Cardinality({j \in 1..Len(log[r]) :
                 log[r][j].ev = "call" /\ log[r][j].op = op})

\* The log of invocation r is: register(p1), settled, ..., register(pk),
\* settled, boot(p1), settled, boot(p2), settled, ... - every call made on
\* the provider at that place of the list, every call but the last one
\* resolved before the next is made, and nothing after a rejected call.
InOrder(r) ==
  LET k == CallsMade(r, "register") IN
  \A j \in 1..Len(log[r]) :
    LET c == (j + 1) \div 2
        e == log[r][j] IN
    /\ e.op = (IF c <= k THEN "register" ELSE "boot")
    /\ e.i = (IF c <= k THEN c ELSE c - k)
    /\ e.inst = providers[e.i]
    /\ e.ev = (IF j % 2 = 1 THEN "call"
               ELSE IF j < Len(log[r]) THEN "resolved" ELSE e.ev)
    /\ e.ev \in {"call", "resolved", "rejected"}

\* Invocation r makes its first boot() call in this step.
FirstBootCall(r) ==
  CallsMade(r, "boot") = 0 /\ CallsMade(r, "boot")' = 1

\* Invocation r completes successfully in this step.
Completes(r) == runs[r].pc # "done" /\ runs'[r].pc = "done"

\* C1: one run of boot() calls register(p1), ..., register(pn),
\* boot(p1), ..., boot(pn) in exactly this order, each call settled before
\* the next starts: its calls are in list order with all register() calls
\* first; when it makes its first boot() call it has registered the whole
\* list; when it completes it has registered and booted the whole list.
C1_RegisterThenBootInOrder ==
  /\ [](\A r \in Runs : InOrder(r))
  /\ [][\A r \in Runs :
         /\ FirstBootCall(r) =>
               CallsMade(r, "register") = Len(providers)
         /\ Completes(r) =>
               /\ CallsMade(r, "boot")' = Len(providers')
               /\ Len(log'[r]) =
                    2 * (CallsMade(r, "register")' + CallsMade(r, "boot")')]_vars

\* C1 witness: a run over two providers has completed with all four calls.
C1_Witness ==
  \E r \in Runs : /\ runs[r].pc = "done"
                   /\ Len(providers) = 2
                   /\ CallsMade(r, "register") = 2
                   /\ CallsMade(r, "boot") = 2

\* Some invocation has seen register() of instance `inst` resolve.
HasRegistered(inst) ==
  \E q \in Runs : \E j \in 1..Len(log[q]) :
    /\ log[q][j].ev = "resolved"
    /\ log[q][j].op = "register"
    /\ log[q][j].inst = inst

\* Invocation r calls a provider's boot() in this step.
BootCallMade(r) == CallsMade(r, "boot")' = CallsMade(r, "boot") + 1

\* C2: whenever a provider's boot() is invoked, every provider in the
\* provider list at that moment has completed its register().
C2_AllRegisteredBeforeAnyBoot ==
  [][\A r \in Runs :
       BootCallMade(r) =>
         \A i \in 1..Len(providers) : HasRegistered(providers[i])]_vars

\* C3: once a boot() call has completed successfully, a further boot()
\* call returns at once: it calls no provider and leaves the booted flag,
\* the provider list, the configuration repository and the process time
\* zone as they were.
C3_BootIdempotent ==
  [][\A r \in Runs :
       ( /\ \E q \in Runs : runs[q].pc = "done"
         /\ runs[r].pc = "idle"
         /\ runs'[r].kind = "boot" )
       => /\ runs'[r].pc = "returned"
          /\ UNCHANGED <<log, booted, providers, config, repoBooted,
                         envTZ>>]_vars

\* C3 witness: after a boot over a non-empty list completed, a further
\* boot() call has returned.
C3_Witness ==
  \E q, r \in Runs : /\ runs[q].pc = "done"
                      /\ Len(log[q]) > 0
                      /\ runs[r].pc = "returned"
                      /\ runs[r].kind = "boot"

\* The invocations whose call of provider method `op` is in flight.
InFlight(op) == {r \in Runs : runs[r].pc = op /\ runs[r].st = "pending"}

\* C4: at no moment are two provider register() calls, or two provider
\* boot() calls, in flight together.
C4_NoTwoCallsInFlight ==
  /\ Cardinality(InFlight("register")) <= 1
  /\ Cardinality(InFlight("boot")) <= 1

\* How often provider method `op` has been invoked on instance `inst`.
TimesCalled(inst, op) ==
  Cardinality({x \in Runs \X (1..(4 * MaxProviders)) :
                 /\ x[2] <= Len(log[x[1]])
                 /\ log[x[1]][x[2]].ev = "call"
                 /\ log[x[1]][x[2]].op = op
                 /\ log[x[1]][x[2]].inst = inst})

\* C5: each provider instance in the provider list has its register()
\* invoked at most once and its boot() invoked at most once.
C5_EachProviderUsedOnce ==
  \A i \in 1..Len(providers) :
    /\ TimesCalled(providers[i], "register") <= 1
    /\ TimesCalled(providers[i], "boot") <= 1

\* Some invocation has seen boot() of instance `inst` resolve.
HasBooted(inst) ==
  \E q \in Runs : \E j \in 1..Len(log[q]) :
    /\ log[q][j].ev = "resolved"
    /\ log[q][j].op = "boot"
    /\ log[q][j].inst = inst

\* C26: a run() call made on an application that is not booted boots it:
\* when the call completes, isBooted() is true and every provider in the
\* provider list has had its register() and its boot() completed; a run()
\* call made on a booted application returns at once, calling no provider
\* and changing no state.
C26_RunBootsFirst ==
  [][\A r \in Runs :
       /\ (runs'[r].kind = "run" /\ Completes(r))
          => /\ booted'
             /\ \A i \in 1..Len(providers') :
                  /\ HasRegistered(providers[i])'
                  /\ HasBooted(providers[i])'
       /\ (runs[r].pc = "idle" /\ runs'[r].kind = "run" /\ booted)
          => /\ runs'[r].pc = "returned"
             /\ UNCHANGED <<log, booted, providers, instances, config,
                            repoBooted, envTZ, nodeEnv, thrown>>]_vars

\* C35: when the provider call a boot()/run() invocation awaits rejects,
\* the invocation rejects with the provider's error and makes no further
\* provider call; the application is then unbooted (register() is
\* accepted) and the repository not frozen; and a boot() called after the
\* failure starts with register() of the first provider.
C35_FailedBootStaysUnbooted ==
  [][\A r \in Runs :
       /\ (runs[r].st = "rejected" /\ Resume(r))
          => /\ runs'[r].pc = "failed"
             /\ runs'[r].err = "provider"
             /\ log' = log
             /\ ~booted'
             /\ ~RegisterRefused'
             /\ ~repoBooted'
       /\ runs[r].pc = "failed"
          => runs'[r] = runs[r] /\ log'[r] = log[r]
       /\ \A q \in Runs \ {r} :
            ( /\ runs[q].pc = "failed"
              /\ runs[q].err = "provider"
              /\ runs[r].pc = "idle"
              /\ runs'[r].pc # "idle"
              /\ Boot(r) )
            => /\ runs'[r].pc = "register"
               /\ runs'[r].idx = 1
               /\ log'[r] = <<Event("call", "register", 1)>>]_vars

\* ======================================================================
\* Properties of the container (checked under SpecC)
\* ======================================================================

\* The token under which make(token) looks for a binding: the token's
\* alias target when it has one, the token itself otherwise.
Target(token) == IF token \in DOMAIN aliases THEN aliases[token] ELSE token

\* C6: for a token registered with singleton(token, factory) and not
\* re-registered since, once it has been resolved at least once its
\* factory has executed exactly once and every resolution has returned
\* one and the same value, whatever the factory returns.
C6_SingletonFactoryOnce ==
  \A t \in DOMAIN bindings :
    ( /\ bindings[t].singleton
      /\ bindings[t].factory \in Factories
      /\ usage[t].resolutions >= 1 )
    => /\ usage[t].runs = 1
       /\ Cardinality(usage[t].returned) = 1

\* C7 as stated: every make(t) of a token t bound with bind(t, factory)
\* executes that factory exactly once with the container as argument,
\* returns the value that call produced and caches nothing; k resolutions
\* are k executions.
C7_TransientAsStated ==
  /\ [](\A t \in DOMAIN bindings :
          ~bindings[t].singleton => usage[t].runs = usage[t].resolutions)
  /\ [][\A t \in Tokens :
          (t \in DOMAIN bindings /\ ~bindings[t].singleton /\ CMake(t))
          => /\ ret'.ok
             /\ ret'.ran = <<FactoryCall(bindings[t].factory)>>
             /\ ret'.v = Produce(Cur, bindings[t].factory)
             /\ bindings[t].factory = FNew => ret'.v \notin usage[t].returned
             /\ bindings' = bindings
             /\ usage'[t].runs = usage[t].runs + 1]_vars

\* C7 (amended): every make(t) whose binding - the one stored under t's
\* alias target when t has an alias, under t otherwise - is transient
\* executes that binding's factory exactly once with the container as
\* argument and returns the value that call produced, passed through the
\* extenders of the binding's token in registration order; a factory that
\* builds objects yields one never returned before, nothing is cached, and
\* k resolutions of a transient binding are k executions of its factory.
C7_TransientRunsFactoryEachTime ==
  /\ [](\A t \in DOMAIN bindings :
          ~bindings[t].singleton => usage[t].runs = usage[t].resolutions)
  /\ [][\A t \in Tokens :
          LET o == Target(t) IN
          (o \in DOMAIN bindings /\ ~bindings[o].singleton /\ CMake(t))
          => /\ ret'.ok
             /\ ret'.ran = <<FactoryCall(bindings[o].factory)>>
             /\ ret'.v = Reduce(ExtendersOf(Cur, o),
                                Produce(Cur, bindings[o].factory))
             /\ bindings[o].factory = FNew => ret'.v \notin usage[o].returned
             /\ bindings' = bindings
             /\ usage'[o].runs = usage[o].runs + 1
             /\ usage'[o].resolutions = usage[o].resolutions + 1]_vars

\* C7 witness: a transient binding has been resolved twice through an alias
\* of its token, by two factory executions that returned two different
\* values.
C7_Witness ==
  \E t \in DOMAIN aliases :
    LET o == aliases[t] IN
    /\ o \in DOMAIN bindings
    /\ ~bindings[o].singleton
    /\ bindings[o].factory = FNew
    /\ usage[o].resolutions = 2
    /\ usage[o].runs = 2
    /\ Cardinality(usage[o].returned) = 2
    /\ ret.op = "make"
    /\ ret.token = t
    /\ ret.ok

\* A step that registers something or asks has().
RegistrationOrQuery ==
  \/ \E t \in Tokens, f \in Factories : CBind(t, f) \/ CSingleton(t, f)
  \/ \E t \in Tokens, v \in InstanceValues : CInstance(t, v)
  \/ \E t \in Tokens : CTag(t, TagG) \/ CHas(t)
  \/ \E t, a \in Tokens : CAlias(t, a)
  \/ \E t \in Tokens, e \in Extenders : CExtend(t, e)

\* C8: bind, singleton, instance, alias, tag, extend and has execute no
\* factory and no extender callback and build no object; a factory or an
\* extender only ever runs in a make, a tagged or an Application.make
\* step; and a token registered with singleton() that has not been
\* resolved since has run its factory zero times and holds no value.
C8_RegistrationComputesNothing ==
  /\ [](\A t \in DOMAIN bindings :
          ( /\ bindings[t].singleton
            /\ bindings[t].factory \in Factories
            /\ usage[t].resolutions = 0 )
          => /\ usage[t].runs = 0
             /\ bindings[t].instance = Undef)
  /\ [][/\ UNCHANGED <<factoryRuns, extenderRuns, serial>>
           \/ ~RegistrationOrQuery
        /\ (factoryRuns' # factoryRuns \/ extenderRuns' # extenderRuns)
           => /\ ret'.op \in {"make", "tagged", "app.make"}
              /\ ops' = ops + 1
              /\ ret'.ran # <<>>]_vars

\* C8 witness: a singleton with an extender is registered, has() has
\* answered true for it, and no factory has run yet.
C8_Witness ==
  \E t \in DOMAIN bindings :
    /\ bindings[t].singleton
    /\ bindings[t].factory = FNew
    /\ bindings[t].instance = Undef
    /\ t \in DOMAIN extenders
    /\ ret.op = "has"
    /\ ret.token = t
    /\ ret.v = [t |-> "bool", b |-> TRUE]
    /\ factoryRuns = 0
    /\ extenderRuns = 0

\* What the claim requires of a failed resolution of token t.
FailsNaming(t) ==
  /\ ~ret'.ok
  /\ ret'.err = NoBindingMsg(t)
  /\ ret'.ran = <<>>
  /\ UNCHANGED <<bindings, aliases, tags, extenders>>

\* No binding is stored under t or under t's alias target.
Unbound(t) == t \notin DOMAIN bindings /\ Target(t) \notin DOMAIN bindings

\* The configuration lookup Application.make falls back on is undefined.
NoConfigValue(t) ==
  (t.k = "str" /\ Len(t.s) >= 2 /\ t.s[1] = "config")
  => RepoGet(config, Tail(t.s), Undef) = Undef

\* The step is the call `op` of token t (the answer records both).
Calls(op, t, step) == ret'.op = op /\ ret'.token = t /\ step

\* C9 as stated: make(t) of a token t that has no binding, directly or
\* through its alias, and that is not a constructor reference throws the
\* no-binding error naming t and changes nothing; Application.make does
\* the same when the config lookup is undefined too.
C9_UnboundAsStated ==
  [][\A t \in Tokens :
       /\ (Unbound(t) /\ ~IsCtor(t) /\ Calls("make", t, CMake(t)))
          => FailsNaming(t)
       /\ (Unbound(t) /\ ~IsCtor(t) /\ NoConfigValue(t)
             /\ Calls("app.make", t, CAppMake(t)))
          => FailsNaming(t)]_vars

\* C9 (amended): make(t) of a token t that has no binding, directly or
\* through its alias, and whose alias target (t itself when it has no
\* alias) is not a constructor reference throws the no-binding error
\* naming the requested token t and leaves bindings, aliases, tags and
\* extenders unchanged; Application.make does the same when, for a
\* 'config.'-prefixed string, the lookup of the remainder is undefined.
C9_UnboundThrows ==
  [][\A t \in Tokens :
       /\ (Unbound(t) /\ ~IsCtor(Target(t)) /\ Calls("make", t, CMake(t)))
          => FailsNaming(t)
       /\ (Unbound(t) /\ ~IsCtor(Target(t)) /\ NoConfigValue(t)
             /\ Calls("app.make", t, CAppMake(t)))
          => FailsNaming(t)]_vars

\* C9 witness: Application.make('config.app.key') has thrown the
\* no-binding error naming that token, which is aliased to an unbound
\* string token, on an application without that configuration value.
C9_Witness ==
  /\ ret.op = "app.make"
  /\ ret.token = TokCfg
  /\ TokCfg \in DOMAIN aliases
  /\ ~ret.ok
  /\ ret.err = NoBindingMsg(TokCfg)
  /\ RepoGet(config, <<"app", "key">>, Undef) = Undef

\* C19: for a token registered with instance(token, value), every
\* resolution of its binding has returned that very value, whatever the
\* value is, and no factory has been executed for it.
C19_InstanceReturnsItsValue ==
  \A t \in DOMAIN bindings :
    bindings[t].factory.k = "const"
    => /\ usage[t].returned \subseteq {bindings[t].factory.v}
       /\ usage[t].runs = 0

\* C20: a token `a` registered as an alias of a token `o` that is not
\* itself an alias resolves as `o` does: has() answers the same, make()
\* returns the same value (or fails alike) with the same effect on the
\* container, and a singleton under `o`, resolved at least once through
\* either name, has run its factory once in total and returned one value.
C20_AliasResolvesAsToken ==
  \A a \in DOMAIN aliases :
    LET o == aliases[a]
        ma == Make(Cur, a)
        mo == Make(Cur, o)
    IN o \notin DOMAIN aliases
       => /\ Has(Cur, a) = Has(Cur, o)
          /\ ma.ok = mo.ok /\ ma.v = mo.v /\ ma.ran = mo.ran /\ ma.c = mo.c
          /\ ( /\ o \in DOMAIN bindings
               /\ bindings[o].singleton
               /\ bindings[o].factory \in Factories
               /\ usage[o].resolutions >= 1 )
             => /\ usage[o].runs = 1
                /\ Cardinality(usage[o].returned) = 1

\* Token t is a string 'config.<path>'; PathOf(t) is <path>, split at the
\* dots.
ConfigPrefixed(t) == t.k = "str" /\ Len(t.s) >= 2 /\ t.s[1] = "config"
PathOf(t) == Tail(t.s)

\* C13: for a token 'config.<path>' under which (through its alias, if it
\* has one) the container holds no binding, Application.make returns
\* exactly Repository.get('<path>') whenever that value is not undefined;
\* it runs no factory and leaves bindings, aliases, tags and extenders
\* unchanged.
C13_ConfigFallback ==
  [][\A t \in Tokens :
       ( /\ ConfigPrefixed(t)
         /\ Target(t) \notin DOMAIN bindings
         /\ RepoGet(config, PathOf(t), Undef) # Undef
         /\ Calls("app.make", t, CAppMake(t)) )
       => /\ ret'.ok
          /\ ret'.v = RepoGet(config, PathOf(t), Undef)
          /\ ret'.ran = <<>>
          /\ UNCHANGED <<bindings, aliases, tags, extenders, factoryRuns,
                         serial>>]_vars

\* C13 witness: Application.make('config.app.key') has returned the
\* configured key while the container holds no binding for the token.
C13_Witness ==
  /\ ret.op = "app.make"
  /\ ret.token = TokCfg
  /\ ret.ok
  /\ ret.v = Str("base64:k")
  /\ TokCfg \notin DOMAIN bindings
  /\ TokCfg \notin DOMAIN aliases
  /\ ops >= 2

\* C14: when the container holds a binding for the token (through its
\* alias, if it has one), Application.make returns what the container
\* resolves - the cached instance of a singleton, otherwise the product of
\* the binding's factory passed through its extenders - whatever the
\* configuration repository holds, also for a 'config.<path>' token with a
\* value at <path>.
C14_BindingBeforeConfig ==
  [][\A t \in Tokens :
       LET o == Target(t) IN
       (o \in DOMAIN bindings /\ Calls("app.make", t, CAppMake(t)))
       => /\ ret'.ok
          /\ IF bindings[o].singleton /\ bindings[o].instance # Undef
             THEN ret'.v = bindings[o].instance /\ ret'.ran = <<>>
             ELSE /\ ret'.ran = <<FactoryCall(bindings[o].factory)>>
                  /\ ret'.v = Reduce(ExtendersOf(Cur, o),
                                     Produce(Cur, bindings[o].factory))]_vars

\* C14 witness: Application.make('config.app.key') has returned the
\* container's value although the repository holds a value at 'app.key'.
C14_Witness ==
  /\ ret.op = "app.make"
  /\ ret.token = TokCfg
  /\ ret.ok
  /\ TokCfg \in DOMAIN bindings
  /\ TokCfg \notin DOMAIN aliases
  /\ RepoGet(config, <<"app", "key">>, Undef) = Str("base64:k")
  /\ ret.v # Str("base64:k")
  /\ ret.v # Undef

\* The invocations that are inside one of boot()'s provider loops.
InLoops == {r \in Runs : runs[r].pc \in {"register", "boot"}}

\* C12: whenever the application is booted its configuration repository
\* is frozen, and the step of boot() that freezes the repository is taken
\* only when no boot() invocation has a provider register() or boot() call
\* in flight or still to make.
C12_FrozenOnlyAfterProviders ==
  /\ [](booted => repoBooted)
  /\ [][(~repoBooted /\ repoBooted') => (booted' /\ InLoops' = {})]_vars

\* The configured values phase 3 of boot() looks at.
TimezoneValue == RepoGet(config, <<"app", "timezone">>, Undef)
KeyValue == RepoGet(config, <<"app", "key">>, Undef)
\* A value that is there and is not the empty string.
NonEmpty(v) == v # Undef /\ v # Null /\ v # Str("")
\* Invocation r ends successfully in this step.
Succeeds(r) == runs[r].pc # "done" /\ runs'[r].pc = "done"
\* Invocation r gets to phase 3 in this step: it ends, and not because a
\* provider threw.
ReachesPhase3(r) ==
  /\ runs[r].pc \in {"idle", "register", "boot"}
  /\ runs'[r].pc \in {"done", "failed"}
  /\ runs'[r].err # "provider"

\* C15 as stated: a boot() that succeeds sets process.env.TZ to the value
\* at 'app.timezone' if there is one (not undefined) and leaves it as it
\* was otherwise.
C15_TimezoneAsStated ==
  [][\A r \in Runs :
       Succeeds(r)
       => envTZ' = (IF TimezoneValue # Undef THEN TimezoneValue
                    ELSE envTZ)]_vars

\* C15 (amended): a boot() that succeeds sets process.env.TZ to the value
\* at 'app.timezone' if that value is there and is not the empty string,
\* and leaves process.env.TZ exactly as it was otherwise; no other step of
\* the application changes process.env.TZ, and once the application is
\* booted a non-empty configured time zone is the process time zone.
C15_TimezoneApplied ==
  /\ [](booted /\ NonEmpty(TimezoneValue) => envTZ = TimezoneValue)
  /\ [][/\ \A r \in Runs :
             Succeeds(r)
             => envTZ' = (IF NonEmpty(TimezoneValue) THEN TimezoneValue
                          ELSE envTZ)
        /\ envTZ' # envTZ => \E r \in Runs : Succeeds(r)]_vars

\* C15 witness: a boot() over a registered provider has succeeded and the
\* process time zone is the configured one.
C15_Witness ==
  /\ booted
  /\ \E r \in Runs : runs[r].pc = "done" /\ Len(log[r]) > 0
  /\ TimezoneValue = Str("Asia/Kolkata")
  /\ envTZ = Str("Asia/Kolkata")

\* C16 as stated: a boot() that gets to phase 3 fails exactly when
\* NODE_ENV is 'production' and there is no value (undefined) at
\* 'app.key'; it then fails with the APP_KEY error and leaves the booted
\* flag, the repository freeze and process.env.TZ untouched.
C16_AppKeyAsStated ==
  [][\A r \in Runs :
       ReachesPhase3(r)
       => /\ runs'[r].pc = "failed"
             <=> (nodeEnv = "production" /\ KeyValue = Undef)
          /\ runs'[r].pc = "failed"
             => /\ runs'[r].err = AppKeyMsg
                /\ ~booted' /\ ~repoBooted'
                /\ UNCHANGED <<booted, repoBooted, envTZ>>]_vars

\* C16 (amended): a boot() that gets to phase 3 fails exactly when
\* NODE_ENV is 'production' and the value at 'app.key' is missing or is
\* the empty string; it then fails with the APP_KEY error, the
\* application is not booted, the repository is not frozen and
\* process.env.TZ is unchanged. With a non-empty key, or outside
\* production, phase 3 never fails.
C16_AppKeyRequiredInProduction ==
  [][\A r \in Runs :
       ReachesPhase3(r)
       => /\ runs'[r].pc = "failed"
             <=> (nodeEnv = "production" /\ ~NonEmpty(KeyValue))
          /\ runs'[r].pc = "failed"
             => /\ runs'[r].err = AppKeyMsg
                /\ ~booted' /\ ~repoBooted'
                /\ UNCHANGED <<booted, repoBooted, envTZ>>]_vars

\* C16 witness: in production, with a time zone but no key configured, a
\* boot() over a registered provider has failed with the APP_KEY error and
\* the application is not booted, not frozen, its time zone untouched.
C16_Witness ==
  /\ nodeEnv = "production"
  /\ \E r \in Runs : /\ runs[r].pc = "failed"
                      /\ runs[r].err = AppKeyMsg
                      /\ Len(log[r]) > 0
  /\ KeyValue = Undef
  /\ TimezoneValue = Str("Asia/Kolkata")
  /\ envTZ = Str("UTC")
  /\ ~booted
  /\ ~repoBooted

\* ======================================================================
\* Properties of the repository (checked under SpecR)
\* ======================================================================

\* C11: once the repository is marked booted, every loadConfigDirectory
\* call, for an existing or a missing directory, throws the
\* cannot-be-modified error and leaves the configuration tree and the
\* booted mark as they were, so that get (with any default), has, all and
\* isBooted answer after the call what they answered before it.
C11_FrozenRepositoryRejectsLoads ==
  [][\A dir \in RDirs \cup Dirs :
       (repoBooted /\ LoadConfigDirectory(dir))
       => /\ thrown' = ConfigModifiedMsg
          /\ config' = config
          /\ \A k \in Keys, d \in Defaults :
               RepoGet(config', k, d) = RepoGet(config, k, d)
          /\ All(config') = All(config)
          /\ repoBooted' = repoBooted]_vars

\* C11 witness: the repository was frozen by markAsBooted() alone, a load
\* has thrown, and a get() has since returned a configured value.
C11_Witness ==
  /\ repoBooted
  /\ ~booted
  /\ thrown = ConfigModifiedMsg
  /\ got = Read("get", <<"app", "name">>, Undef, Str("Test App"))

\* What the caller of all() may do with the mapping it got.
CallerWrites ==
  \/ CallerSetsTop("app", Str("mine"))
  \/ CallerSetsNested("app", "name", Str("changed"))

\* C17: all() returns a mapping structurally equal to the configuration
\* tree, and nothing the caller writes into that mapping, at its top level
\* or inside a nested mapping, changes what get, has and all answer.
C17_AllIsMutationSafe ==
  [][/\ RAll => /\ got'.v = Obj(config)
                /\ View(copy', config') = Obj(config)
     /\ CallerWrites
        => /\ \A k \in Keys, d \in Defaults :
                RepoGet(config', k, d) = RepoGet(config, k, d)
           /\ Obj(config') = Obj(config)]_vars

\* The value at the path `keys` below `value` when every segment is a key
\* of the mapping reached so far, else `def`.
RECURSIVE Lookup(_, _, _)
Lookup(value, keys, def) ==
  IF keys = <<>> THEN value
  ELSE IF value.t # "map" \/ Head(keys) \notin DOMAIN value.m THEN def
  ELSE Lookup(value.m[Head(keys)], Tail(keys), def)

\* C18: get(key, default) returns the value at the full path when every
\* segment is present, and the default as soon as a segment is absent or
\* a non-mapping value is reached before the last segment; has(key) is
\* true exactly when get(key) is not undefined.
C18_GetWalksThePath ==
  [][\A k \in Keys :
       /\ \A d \in Defaults :
            RGet(k, d) => got'.v = Lookup(Obj(config), k, d)
       /\ RHas(k) => got'.v = Bool(Lookup(Obj(config), k, Undef) # Undef)]_vars

\* C10: once the application is booted, every register(provider) call
\* throws the registration-after-boot error, constructs no provider and
\* leaves the provider list unchanged.
C10_RegisterAfterBootThrows ==
  [][\A p \in ProviderArgs :
       (booted /\ AppRegister(p))
       => /\ thrown' = RegisterAfterBootMsg
          /\ providers' = providers
          /\ instances' = instances]_vars

\* C10 witness: the application is booted and a register() call has thrown.
C10_Witness == booted /\ thrown = RegisterAfterBootMsg
\* What the claim requires of the resolution of an unbound token whose
\* constructor is `k`: a new object built by k with the container as sole
\* argument, no factory executed, no binding registered.
BuildsNew(t, k) ==
  /\ ret'.ok
  /\ ret'.v.t = "obj"
  /\ ret'.v.by = k.s[1]
  /\ ret'.v.args = <<TheContainer>>
  /\ ret'.v.n > serial
  /\ serial' = serial + 1
  /\ ret'.ran = <<>>
  /\ UNCHANGED <<bindings, aliases, tags, extenders, usage, factoryRuns>>
  /\ Target(t) \notin DOMAIN bindings'

\* C24 as stated: make(t) of a constructor reference t that has no
\* binding after alias indirection returns a new object built by calling
\* t with the container, and registers nothing.
C24_InstantiatesAsStated ==
  [][\A t \in Tokens :
       ( /\ Target(t) \notin DOMAIN bindings
         /\ IsCtor(t)
         /\ Calls("make", t, CMake(t)) )
       => BuildsNew(t, t)]_vars

\* C24 (amended): make(t) of a token t whose alias target (t itself when
\* it has no alias) has no binding and is a constructor reference returns
\* a new object - one never returned before - built by calling that
\* constructor with the container as sole argument; it executes no
\* factory and registers no binding, so has(t) stays false.
C24_InstantiatesUnboundClass ==
  [][\A t \in Tokens :
       ( /\ Target(t) \notin DOMAIN bindings
         /\ IsCtor(Target(t))
         /\ Calls("make", t, CMake(t)) )
       => BuildsNew(t, Target(t))]_vars

\* C24 witness: the unbound class has been resolved twice, the second
\* resolution returning the second object built, and has no binding.
C24_Witness ==
  /\ ret.op = "make"
  /\ ret.token = TokK
  /\ ret.ok
  /\ ret.v.t = "obj"
  /\ ret.v.by = "K"
  /\ ret.v.n = 2
  /\ serial = 2
  /\ factoryRuns = 0
  /\ ~Has(Cur, TokK)

\* The step can only be a registration under t: it answers nothing,
\* leaves aliases, tags and extenders alone and starts t's usage anew.
Registered(t) ==
  /\ ret' = ret
  /\ aliases' = aliases
  /\ tags' = tags
  /\ extenders' = extenders
  /\ t \in DOMAIN usage'
  /\ usage'[t] = NoUsage

\* A registration under t stores a whole new binding under t, whatever was
\* stored there, and touches no other binding.
Overwrites ==
  \A t \in Bindable :
    /\ (Registered(t) /\ CBind(t, FNew))
       => bindings' = Put(bindings, t, [factory |-> FNew,
                                        singleton |-> FALSE,
                                        instance |-> Undef])
    /\ \A f \in Factories :
         (Registered(t) /\ CSingleton(t, f))
         => bindings' = Put(bindings, t, [factory |-> f,
                                          singleton |-> TRUE,
                                          instance |-> Undef])
    /\ \A v \in InstanceValues :
         (Registered(t) /\ CInstance(t, v))
         => bindings' = Put(bindings, t, [factory |-> FConst(v),
                                          singleton |-> TRUE,
                                          instance |-> v])

\* make(t) uses the binding now stored under o and nothing else: it
\* returns that binding's cached instance, or executes that binding's
\* factory and returns its (extended) product.
UsesBinding(t, o) ==
  (o \in DOMAIN bindings /\ Calls("make", t, CMake(t)))
  => /\ ret'.ok
     /\ \/ /\ ret'.ran = <<>>
            /\ bindings[o].singleton
            /\ bindings[o].instance # Undef
            /\ ret'.v = bindings[o].instance
         \/ /\ ret'.ran = <<FactoryCall(bindings[o].factory)>>
            /\ ret'.v = Reduce(ExtendersOf(Cur, o),
                               Produce(Cur, bindings[o].factory))

\* The instance a binding holds is the value registered with instance()
\* or one that a resolution returned since the binding was registered.
CachedSinceRegistered ==
  \A t \in DOMAIN bindings :
    bindings[t].instance # Undef
    => \/ bindings[t].factory = FConst(bindings[t].instance)
       \/ bindings[t].instance \in usage[t].returned

\* C25 as stated: bind, singleton and instance replace whatever binding
\* was stored under the token, and every later make(t) of a bound token t
\* uses only the binding now registered under t.
C25_OverwriteAsStated ==
  /\ []CachedSinceRegistered
  /\ [][Overwrites /\ \A t \in Tokens : UsesBinding(t, t)]_vars

\* C25 (amended): bind, singleton and instance replace whatever binding
\* was stored under the token (transient, singleton with or without a
\* cached instance, or instance) by a new one that holds no value of the
\* old one; every later make(t) that reaches that binding - t has no alias,
\* or its alias names the token - uses only the factory and the cache of
\* the binding now stored there.
C25_RegistrationOverwrites ==
  /\ []CachedSinceRegistered
  /\ [][Overwrites /\ \A t \in Tokens : UsesBinding(t, Target(t))]_vars

\* C25 witness: a singleton was resolved and cached, the token was then
\* registered again with bind(), and the next make() returned the second
\* object built, by the new factory, not the one cached before.
C25_Witness ==
  /\ TokA \in DOMAIN bindings
  /\ ~bindings[TokA].singleton
  /\ TokA \notin DOMAIN aliases
  /\ usage[TokA].resolutions = 1
  /\ factoryRuns = 2
  /\ serial = 2
  /\ ret.op = "make"
  /\ ret.token = TokA
  /\ usage[TokA].returned = {NewObj("f", 2)}
  /\ ret.v = NewObj("f", 2)

\* ======================================================================
\* Properties of aliases, tags and extenders (checked under SpecD)
\* ======================================================================

\* The resolution of token t by the binding stored under t itself, no
\* alias consulted.
Direct(t) == Make([Cur EXCEPT !.aliases = <<>>], t)

\* C21: alias resolution is single-hop. For a token `a` declared as an
\* alias of `b`, whatever else the alias map holds (an alias of `b`, a
\* cycle, a self-alias): has(a) tells whether a binding is stored under
\* b, and make(a) ends and does exactly what resolving the binding stored
\* under b does - same value or failure, same factory executions, same
\* container afterwards - so no binding other than the one under b is
\* consulted.
C21_AliasSingleHop ==
  [][\A a \in DOMAIN aliases :
       LET b == aliases[a] IN
       /\ Calls("has", a, CHas(a))
          => ret'.v = [t |-> "bool", b |-> b \in DOMAIN bindings]
       /\ Calls("make", a, CMake(a))
          => /\ ret'.ok = Direct(b).ok
             /\ ret'.v = Direct(b).v
             /\ ret'.ran = Direct(b).ran
             /\ bindings' = Direct(b).c.bindings
             /\ usage' = Direct(b).c.usage
             /\ \A t \in DOMAIN usage \ {b} : usage'[t] = usage[t]]_vars

\* C21 witness: with `a` an alias of `b` and `b` an alias of a bound third
\* token, make(a) has ended without touching that token's binding; the
\* alias map also reaches a cycle.
C21_Witness ==
  \E a \in DOMAIN aliases :
    LET b == aliases[a] IN
    /\ b \in DOMAIN aliases
    /\ aliases[b] \notin {a, b}
    /\ aliases[b] \in DOMAIN bindings
    /\ b \notin DOMAIN bindings
    /\ usage[aliases[b]].resolutions = 0
    /\ ret.op = "make"
    /\ ret.token = a

\* C21 witness for cycles: make() of a token of a two-token alias cycle,
\* or of a token that is its own alias, has returned.
C21_WitnessCycle ==
  \E a \in DOMAIN aliases :
    /\ aliases[a] \in DOMAIN aliases
    /\ aliases[aliases[a]] = a
    /\ ret.op = "make"
    /\ ret.token = a
    /\ ret.ok

\* The tokens grouped under tag g, in the order of the tag() calls.
TagsOf(g) == IF g \in DOMAIN tags THEN tags[g] ELSE <<>>

\* The container after the first i tokens of `toks` have been resolved one
\* after the other, and the resolution of the i-th of them.
RECURSIVE After(_, _)
After(toks, i) ==
  IF i = 0 THEN Cur ELSE Make(After(toks, i - 1), toks[i]).c
Nth(toks, i) == Make(After(toks, i - 1), toks[i])

\* tag(t, g) puts t at the end of the tokens grouped under g.
TagAppends ==
  \A t \in Tokens :
    (ret' = ret /\ CTag(t, TagG)) => tags' = Put(tags, TagG, Append(TagsOf(TagG), t))

\* The list tagged(g) returns: one resolution per grouped token, in order.
ReturnsAll(g) ==
  /\ ret'.ok
  /\ ret'.v.t = "array"
  /\ Len(ret'.v.items) = Len(TagsOf(g))
  /\ \A i \in 1..Len(TagsOf(g)) : ret'.v.items[i] = Nth(TagsOf(g), i).v
  /\ usage' = After(TagsOf(g), Len(TagsOf(g))).usage
  /\ g \notin DOMAIN tags
       => /\ ret'.v.items = <<>>
          /\ ret'.ran = <<>>
          /\ UNCHANGED <<bindings, usage, factoryRuns, extenderRuns, serial>>

\* C22 as stated: tag() keeps the order of the calls, and every tagged(g)
\* resolves every token grouped under g and returns the resulting
\* instances as a list in that order.
C22_TaggedAsStated ==
  [][/\ TagAppends
     /\ \A g \in {TagG, TagH} :
          Calls("tagged", g, CTagged(g)) => ReturnsAll(g)]_vars

\* C22 (amended): tag() keeps the order of the calls, a token tagged twice
\* being grouped twice; tagged(g) resolves the tokens grouped under g in
\* that order, each as make() does, and returns the list of the resulting
\* instances when every one of them resolves; when a resolution throws,
\* tagged(g) throws that error and the tokens after it are not resolved.
\* For a tag never used it returns the empty list and resolves nothing.
C22_TaggedInOrder ==
  [][/\ TagAppends
     /\ \A g \in {TagG, TagH} :
          Calls("tagged", g, CTagged(g))
          => LET toks == TagsOf(g)
                 bad == {i \in 1..Len(toks) : ~Nth(toks, i).ok}
             IN IF bad = {}
                THEN ReturnsAll(g)
                ELSE LET first == CHOOSE i \in bad : \A j \in bad : i <= j IN
                     /\ ~ret'.ok
                     /\ ret'.err = Nth(toks, first).err
                     /\ usage' = After(toks, first - 1).usage]_vars

\* C22 witness: tagged() has returned a list of two instances, the first
\* built by the factory of a bound token tagged first and the second by
\* the constructor of the class tagged after it.
C22_Witness ==
  /\ ret.op = "tagged"
  /\ ret.ok
  /\ TagsOf(TagG) = <<TokA, TokK>>
  /\ Len(ret.v.items) = 2
  /\ ret.v.items[1].by = "f"
  /\ ret.v.items[2].by = "K"

\* extend(t, e) puts e at the end of the extenders of t's alias target.
ExtendAppends ==
  \A t \in Tokens, e \in ExtenderChain :
    (ret' = ret /\ CExtend(t, e))
    => extenders' = Put(extenders, Target(t),
                        Append(ExtendersOf(Cur, Target(t)), e))

\* A resolution of the binding under o computes an instance: always for a
\* transient binding, at the first resolution for a singleton() binding,
\* never for a value registered with instance().
Computes(o) ==
  \/ ~bindings[o].singleton
  \/ bindings[o].factory \in Factories /\ usage[o].resolutions = 0

\* C23: extend() chains the callbacks in registration order under the
\* token or the token its alias names; a make() that computes an instance
\* returns the factory's product passed through every extender once, in
\* that order; and a make() of a singleton that was computed before runs
\* no extender and returns the cached instance.
C23_ExtendersOncePerInstance ==
  [][/\ ExtendAppends
     /\ \A t \in Tokens :
          LET o == Target(t) IN
          (o \in DOMAIN bindings /\ Calls("make", t, CMake(t)))
          => IF Computes(o)
             THEN /\ ret'.v = Reduce(ExtendersOf(Cur, o),
                                     Produce(Cur, bindings[o].factory))
                  /\ extenderRuns' = extenderRuns + Len(ExtendersOf(Cur, o))
             ELSE /\ ret'.v = bindings[o].instance
                  /\ extenderRuns' = extenderRuns]_vars

\* ======================================================================
\* Properties of termination (checked under SpecT)
\* ======================================================================

\* How many callbacks terminate() invocation t has called.
CallbacksCalled(t) ==
  Cardinality({j \in 1..Len(termLog[t]) : termLog[t][j].ev = "call"})

\* The log of invocation t is: call of the 1st registered callback, its
\* settling, call of the 2nd, its settling, ... - every call but the last
\* one resolved before the next is made, nothing after a rejected call.
DrainsInOrder(t) ==
  \A j \in 1..Len(termLog[t]) :
    LET e == termLog[t][j] IN
    /\ e.i = (j + 1) \div 2
    /\ e.i <= Len(terminatingCallbacks)
    /\ e.cb = terminatingCallbacks[e.i]
    /\ e.ev = (IF j % 2 = 1 THEN "call"
               ELSE IF j < Len(termLog[t]) THEN "resolved" ELSE e.ev)
    /\ e.ev \in {"call", "resolved", "rejected"}

\* Invocation t ends in this step: terminate() returns or rejects.
Ends(t) ==
  /\ terminations[t].pc \notin {"done", "failed"}
  /\ terminations'[t].pc \in {"done", "failed"}

\* onTerminate() puts the callback at the end of the list, and nothing
\* else changes the list; no step of terminate() changes the booted flag.
CallbacksKeptInOrder ==
  /\ terminatingCallbacks' # terminatingCallbacks
       => \E c \in Callbacks :
            terminatingCallbacks' = Append(terminatingCallbacks, c)
  /\ terminations' # terminations => booted' = booted

\* C27 as stated: every terminate() call invokes every registered
\* callback exactly once, in registration order, each awaited to
\* completion before the next starts, and leaves the booted flag alone.
C27_TerminateAsStated ==
  /\ [](\A t \in Terms : DrainsInOrder(t))
  /\ [][/\ CallbacksKeptInOrder
        /\ \A t \in Terms :
             Ends(t) => /\ CallbacksCalled(t)' = Len(terminatingCallbacks')
                        /\ Len(termLog'[t]) = 2 * Len(terminatingCallbacks')]_vars

\* C27 (amended): a terminate() call invokes the registered callbacks in
\* registration order, each at most once per registration and each
\* awaited to completion before the next starts; when it returns, every
\* callback registered by then has been invoked exactly once by this
\* call; when a callback throws or rejects, terminate() rejects and the
\* callbacks after it are not invoked by this call. It never changes the
\* booted flag.
C27_TerminateDrainsInOrder ==
  /\ [](\A t \in Terms : DrainsInOrder(t))
  /\ [][/\ CallbacksKeptInOrder
        /\ \A t \in Terms :
             Ends(t)
             => IF terminations'[t].pc = "done"
                THEN /\ CallbacksCalled(t)' = Len(terminatingCallbacks')
                     /\ Len(termLog'[t]) = 2 * Len(terminatingCallbacks')
                ELSE /\ termLog'[t][Len(termLog'[t])].ev = "rejected"
                     /\ termLog'[t] = termLog[t]]_vars

\* C27 witness: on a booted application, a terminate() call over two
\* different callbacks has returned after calling both, the first one
\* first, and the application is still booted.
C27_Witness ==
  \E t \in Terms :
    /\ terminations[t].pc = "done"
    /\ terminatingCallbacks = <<"c1", "c2">>
    /\ Len(termLog[t]) = 4
    /\ termLog[t][1].cb = "c1"
    /\ termLog[t][3].cb = "c2"
    /\ booted

\* No step of a terminate() call changes the list of callbacks, and
\* terminate() can be called in every state, booted or not.
CallbacksNotRemoved ==
  terminations' # terminations => terminatingCallbacks' = terminatingCallbacks
CanTerminate ==
  \A t \in Terms :
    (terminations[t].pc = "idle"
       /\ \A q \in 1..(t - 1) : terminations[q].pc # "idle")
    => ENABLED Terminate(t)

\* C36 as stated: terminate() runs the callbacks and removes none, so
\* each of k calls runs every registered callback - also one registered
\* while that call was iterating - and it can be called booted or not.
C36_TerminateAsStated ==
  /\ []CanTerminate
  /\ [][/\ CallbacksNotRemoved
        /\ \A t \in Terms :
             Ends(t) => CallbacksCalled(t)' = Len(terminatingCallbacks')]_vars

\* C36 (amended): terminate() runs the callbacks and removes none; it can
\* be called booted or not; each call that returns has run every callback
\* registered by then, also one registered while it was iterating, so k
\* calls that return run every callback k times; a call in which a
\* callback throws or rejects ends there and has run the callbacks up to
\* that one.
C36_TerminateKeepsCallbacks ==
  /\ []CanTerminate
  /\ [][/\ CallbacksNotRemoved
        /\ \A t \in Terms :
             Ends(t)
             => CallbacksCalled(t)'
                  = (IF terminations'[t].pc = "done"
                     THEN Len(terminatingCallbacks')
                     ELSE terminations'[t].idx)]_vars

\* C36 witness: on an unbooted application two terminate() calls have
\* returned, each has run both callbacks, and both are still in the list.
C36_Witness ==
  /\ ~booted
  /\ terminatingCallbacks = <<"c1", "c2">>
  /\ \A t \in Terms :
       /\ terminations[t].pc = "done"
       /\ CallbacksCalled(t) = 2
  /\ termLog[1][1].cb = "c1"
  /\ termLog[1][3].cb = "c2"

\* ======================================================================
\* Registration and resolution (checked under SpecB)
\* ======================================================================

\* The step is bind, singleton or instance under token t.
RegistrationOf(t) ==
  /\ Registered(t)
  /\ \/ CBind(t, FNew)
     \/ \E f \in Factories : CSingleton(t, f)
     \/ \E v \in InstanceValues : CInstance(t, v)

\* In container c, has(t) is true and make(t) yields what the binding
\* stored under t gives: its instance, or the extended product of its
\* factory.
TakesEffect(c, t) ==
  LET m == Make(c, t)
      b == c.bindings[t]
  IN /\ Has(c, t)
     /\ m.ok
     /\ IF b.singleton /\ b.instance # Undef
        THEN m.v = b.instance /\ m.ran = <<>>
        ELSE /\ m.ran = <<FactoryCall(b.factory)>>
             /\ m.v = Reduce(ExtendersOf(c, t), Produce(c, b.factory))

\* has(t) and make(t) answer in container d as they do in container c.
SameAnswers(c, d, t) ==
  /\ Has(c, t) = Has(d, t)
  /\ Make(c, t).ok = Make(d, t).ok
  /\ Make(c, t).err = Make(d, t).err
  /\ Make(c, t).ran = Make(d, t).ran
  /\ (Make(c, t).ran = <<>> => Make(c, t).v = Make(d, t).v)

\* C38 as stated: right after bind, singleton or instance under t, has(t)
\* is true and make(t) yields the product of the new binding, for every
\* token t - also one that was made an alias name before.
C38_RegistrationAsStated ==
  [][\A t \in Bindable : RegistrationOf(t) => TakesEffect(Cur', t)]_vars

\* C38 (amended): right after bind, singleton or instance under t, has(t)
\* is true and make(t) yields the product of the new binding when t is
\* not an alias name (or names itself); when t is an alias name of another
\* token, has(t) and make(t) answer as before the registration.
C38_RegistrationTakesEffect ==
  [][\A t \in Bindable :
       RegistrationOf(t)
       => IF Target(t) = t
          THEN TakesEffect(Cur', t)
          ELSE SameAnswers(Cur, Cur', t)]_vars

\* C38 witness: `a` was made an alias name of the unbound K and then
\* registered: has(a) is false all the same; and a token that is no alias
\* name has been registered and answers has() with true.
C38_Witness ==
  /\ TokA \in DOMAIN aliases
  /\ aliases[TokA] # TokA
  /\ TokA \in DOMAIN bindings
  /\ usage[TokA] = NoUsage
  /\ ~Has(Cur, TokA)
  /\ TokCfg \in DOMAIN bindings
  /\ TokCfg \notin DOMAIN aliases
  /\ usage[TokCfg] = NoUsage
  /\ Has(Cur, TokCfg)

\* ======================================================================
\* has() and make() on missing bindings (checked under SpecD)
\* ======================================================================

\* The outcome m is the "no binding found" error.
NoBindingFound(m) ==
  /\ ~m.ok
  /\ m.err # NoError
  /\ Head(m.err) = Head(NoBindingMsg(TokA))

\* In this state has(t) and make(t) agree for every token t.
HasMakeAgree ==
  \A t \in Tokens :
    /\ Has(Cur, t) => ~NoBindingFound(Make(Cur, t))
    /\ (~Has(Cur, t) /\ ~IsCtor(t) /\ ~IsCtor(Target(t)))
       => NoBindingFound(Make(Cur, t))

\* A has(t) step changes nothing of the container, and a make(t) step
\* fails with "no binding found" as has(t) told before it.
HasIsPure ==
  \A t \in Tokens :
    /\ Calls("has", t, CHas(t))
       => /\ UNCHANGED <<bindings, aliases, tags, extenders, usage,
                       factoryRuns, extenderRuns, serial>>
          /\ ret'.v = [t |-> "bool", b |-> Has(Cur, t)]
    /\ Calls("make", t, CMake(t))
       => /\ Has(Cur, t) => ret'.err = NoError
          /\ (~Has(Cur, t) /\ ~IsCtor(t) /\ ~IsCtor(Target(t)))
             => FailsNaming(t)

Cached(t) ==
  /\ t \in DOMAIN bindings
  /\ bindings[t].singleton
  /\ bindings[t].instance # Undef

\* The binding of a cached singleton t is as it was unless the step is a
\* registration under t: extend(), tag(), alias(), has(), tagged() and
\* the resolutions and registrations of other tokens leave it alone.
CacheKept ==
  \A t \in Tokens :
    (Cached(t) /\ ~Registered(t))
    => t \in DOMAIN bindings' /\ bindings'[t] = bindings[t]

\* make(t) answers with the value cached under o, running no factory and
\* no extender.
AnswersFromCache(t, o) ==
  (Cached(o) /\ Calls("make", t, CMake(t)))
  => /\ ret'.ok
     /\ ret'.v = bindings[o].instance
     /\ ret'.ran = <<>>
     /\ factoryRuns' = factoryRuns
     /\ extenderRuns' = extenderRuns

\* C37 as stated: once a singleton token holds a value other than
\* undefined, every make of that token returns that value until the token
\* is registered again; no other operation changes or recomputes it.
C37_CachedAsStated ==
  [][CacheKept /\ \A t \in Tokens : AnswersFromCache(t, t)]_vars

\* C37 (amended): once a singleton binding holds a value other than
\* undefined, no operation but a registration under its token changes or
\* recomputes it, and every make that reaches the binding - of the token
\* while it is no alias name, or of an alias of it - returns that value
\* without running a factory or an extender.
C37_SingletonCacheKept ==
  [][CacheKept /\ \A t \in Tokens : AnswersFromCache(t, Target(t))]_vars

\* C37 witness: a singleton built by its factory has been resolved a
\* second time after an extender was added: the factory has run once, no
\* extender has run and the same object came back.
C37_Witness ==
  /\ Cached(TokA)
  /\ TokA \notin DOMAIN aliases
  /\ bindings[TokA].factory = FNew
  /\ TokA \in DOMAIN extenders
  /\ usage[TokA].resolutions = 2
  /\ usage[TokA].runs = 1
  /\ usage[TokA].returned = {bindings[TokA].instance}
  /\ extenderRuns = 0
  /\ ret.op = "make"
  /\ ret.token = TokA
  /\ ret.v = bindings[TokA].instance

\* ======================================================================
\* Properties of the application as a whole (checked under SpecA)
\* ======================================================================

\* C28: the provider list is append-only. A register() call on an
\* application that is not booted appends exactly one entry at the end -
\* the instance given, even when it is in the list already, or a new
\* instance of the class given - and leaves the entries before it as they
\* were; every other step (a refused register, boot, run, a provider
\* settling, terminate, onTerminate, make) leaves the list unchanged.
C28_ProviderListAppendOnly ==
  [][/\ \A p \in ProviderArgs :
          (~booted /\ UNCHANGED <<runs, termVars, ops>> /\ AppRegister(p))
          => /\ Len(providers') = Len(providers) + 1
             /\ SubSeq(providers', 1, Len(providers)) = providers
             /\ providers'[Len(providers')] =
                  (IF p.isInstance THEN p.id ELSE instances + 1)
             /\ ~p.isInstance
                  => \A i \in 1..Len(providers) : providers[i] # instances + 1
     /\ \/ providers' = providers
        \/ /\ ~booted
           /\ UNCHANGED <<runs, termVars, ops>>
           /\ \E p \in ProviderArgs : AppRegister(p)]_vars

\* C28 witness: one provider instance was registered twice and is in the
\* list twice, and the list is as it was after a boot and a terminate()
\* call that ran a callback.
C28_Witness ==
  /\ providers = <<1, 1>>
  /\ booted
  /\ terminations[1].pc = "done"
  /\ Len(termLog[1]) = 2

\* C29: booted is one-way. No step - boot, run, a provider settling, a
\* register attempt, onTerminate, terminate, make - takes the
\* application's booted flag from true to false, and no step - a load
\* attempt, markAsBooted, a boot - takes the repository's from true to
\* false.
C29_BootedIsTerminal ==
  [][/\ booted => booted'
     /\ repoBooted => repoBooted']_vars

\* C29 witness: on a booted application whose repository is frozen, a
\* register attempt or a load attempt was refused, a further boot() or
\* run() returned at once, and a terminate() call ran.
C29_Witness ==
  /\ booted
  /\ repoBooted
  /\ thrown # "none"
  /\ \E r \in Runs : runs[r].pc = "returned"
  /\ terminations[1].pc = "done"

\* ======================================================================
\* Properties of the environment loader (checked under SpecE)
\* ======================================================================

\* The keys the lines of the file name, and the first line naming key k.
KeysIn(lines) ==
  {ParseLine(lines[i]).key : i \in {j \in 1..Len(lines) : ParseLine(lines[j]).ok}}
FirstLineFor(lines, k) ==
  CHOOSE i \in 1..Len(lines) :
    /\ ParseLine(lines[i]).ok
    /\ ParseLine(lines[i]).key = k
    /\ \A j \in 1..(i - 1) :
         ~(ParseLine(lines[j]).ok /\ ParseLine(lines[j]).key = k)

\* C30: whatever the environment and the .env file, load() leaves every
\* key that is defined (also as the empty string) with its value; it sets
\* exactly the keys that were undefined and that a line of the file names,
\* each to the value of the first line naming it; and with the file
\* missing or unreadable it leaves the environment unchanged. It raises
\* no error in any case.
C30_LoadNeverOverwrites ==
  LET after == EnvLoad(env, dotenv) IN
  /\ \A k \in DOMAIN env : k \in DOMAIN after /\ after[k] = env[k]
  /\ (~dotenv.exists \/ ~dotenv.readable) => after = env
  /\ (dotenv.exists /\ dotenv.readable)
       => /\ DOMAIN after = DOMAIN env \cup KeysIn(dotenv.lines)
          /\ \A k \in DOMAIN after \ DOMAIN env :
               after[k] =
                 ParseLine(dotenv.lines[FirstLineFor(dotenv.lines, k)]).value
  /\ thrown = "none"

\* C30 witness: load() has run on a file that names A twice and B once,
\* with A defined as the empty string before: A is still the empty
\* string and B has the file's value.
C30_Witness ==
  /\ dotenv = Readable(<<<<"A", "=", "1">>, <<"B", "=", "x">>>>)
  /\ env = (<<"A">> :> <<>>) @@ (<<"B">> :> <<"x">>)

\* C30 witness for a repeated key: the first of two lines for A has won.
C30_WitnessFirstWins ==
  /\ dotenv = Readable(<<<<"A", "=", "2">>, <<"A", "=", "1">>>>)
  /\ env = (<<"A">> :> <<"2">>)

\* The 0-based position of the first '#' of str that lies outside quotes,
\* scanning from position i (1-based) with `quote` the quote that is open
\* there ("" for none); -1 without one.
RECURSIVE CommentOutsideQuotes(_, _, _)
CommentOutsideQuotes(str, i, quote) ==
  IF i > Len(str) THEN -1
  ELSE IF quote = ""
       THEN IF str[i] = "#" THEN i - 1
            ELSE IF str[i] \in {"\"", "'"}
                 THEN CommentOutsideQuotes(str, i + 1, str[i])
                 ELSE CommentOutsideQuotes(str, i + 1, "")
       ELSE CommentOutsideQuotes(str, i + 1,
                                 IF str[i] = quote THEN "" ELSE quote)

\* The reading of one line that the format describes: nothing for a blank
\* line, a comment line or a line without KEY=; else the key and the value
\* without its inline comment and without the quotes that enclose it.
LineAsDescribed(line) ==
  LET trimmedLine == Trim(line)
      at == IndexOf(trimmedLine, "=")
      raw == Trim(Substring(trimmedLine, at + 1, Len(trimmedLine)))
      hash == CommentOutsideQuotes(raw, 1, "")
      bare == IF hash = -1 THEN raw ELSE Trim(Substring(raw, 0, hash))
      enclosed == /\ Len(bare) >= 2
                  /\ bare[1] \in {"\"", "'"}
                  /\ bare[Len(bare)] = bare[1]
  IN IF trimmedLine = <<>> \/ trimmedLine[1] = "#" \/ at < 1
     THEN [ok |-> FALSE, key |-> <<>>, value |-> <<>>]
     ELSE [ok |-> TRUE,
           key |-> Trim(Substring(trimmedLine, 0, at)),
           value |-> IF enclosed THEN SubSeq(bare, 2, Len(bare) - 1)
                     ELSE bare]

\* C31: every line of the .env file is read as the format describes:
\* blank lines and comment lines are ignored, an inline comment outside
\* quotes is stripped and the quotes enclosing a value are removed - also
\* for a quoted value that is followed by an inline comment. So load()
\* sets the keys the lines name in that reading, each key that was
\* undefined to the value its first line has in that reading.
C31_ParsesEveryLine ==
  LET lines == dotenv.lines
      after == EnvLoad(env, dotenv)
      named == {i \in 1..Len(lines) : LineAsDescribed(lines[i]).ok}
      First(k) == CHOOSE i \in named :
                    /\ LineAsDescribed(lines[i]).key = k
                    /\ \A j \in named :
                         LineAsDescribed(lines[j]).key = k => i <= j
  IN (dotenv.exists /\ dotenv.readable)
     => /\ DOMAIN after =
             DOMAIN env \cup {LineAsDescribed(lines[i]).key : i \in named}
        /\ \A k \in DOMAIN after \ DOMAIN env :
             after[k] = LineAsDescribed(lines[First(k)]).value

\* ======================================================================
\* Properties of loadConfigDirectory (checked under SpecL)
\* ======================================================================

\* What a file exports, as described: its `default` field if it has one,
\* else the module.
ExportAsDescribed(module) ==
  IF module.t = "map" /\ "default" \in DOMAIN module.m
  THEN module.m["default"]
  ELSE module

\* The tree after the files of a directory have been read as described:
\* each recognized file that loads and exports a mapping is stored under
\* its base name, the others are skipped.
RECURSIVE TreeAsDescribed(_, _)
TreeAsDescribed(tree, entries) ==
  IF entries = <<>> THEN tree
  ELSE LET e == Head(entries)
           stores == /\ e.file.ext \in {".js", ".ts"}
                     /\ e.module # Throws
                     /\ ExportAsDescribed(e.module).t = "map"
       IN TreeAsDescribed(IF stores
                          THEN Put(tree, e.file.base,
                                   ExportAsDescribed(e.module))
                          ELSE tree,
                          Tail(entries))

\* C32: loadConfigDirectory on an unbooted repository never raises; with
\* no directory at the path the tree is unchanged; each recognized file
\* whose export (its `default` field if present, else the module) is a
\* mapping is stored under its base name, replacing what was stored
\* there; a file that fails to load or exports no mapping is skipped and
\* the other keys are as they would be without it.
C32_LoadsDirectoryAsStated ==
  [][(~repoBooted /\ LoadConfigPath)
     => /\ thrown' = thrown
        /\ configDir.kind = "missing" => config' = config
        /\ configDir.kind = "dir"
             => config' = TreeAsDescribed(config, configDir.entries)]_vars

\* ======================================================================
\* Properties of construction (checked under SpecK)
\* ======================================================================

\* The tree a directory scan of the config path gives a new repository.
Scanned ==
  IF configDir.kind = "dir" THEN LoadFiles(<<>>, configDir.entries) ELSE <<>>
\* The tree behind app.config() of application a, after the step.
ConfigOf(a) == repos'[apps'[a].configRepository].config

\* C33: a construction that finds a cache artifact that parses has exactly
\* the parsed snapshot as its configuration; one that finds an artifact
\* that does not read or parse does not fail and has the configuration
\* the directory scan gives; one that finds no artifact has the
\* configuration the directory scan gives.
C33_CachedConfigOrScan ==
  [][(Len(apps') = Len(apps) + 1 /\ NewApplication)
     => LET a == Len(apps') IN
        /\ (cachedConfig.exists /\ cachedConfig.parses)
           => /\ apps'[a].constructed
              /\ thrown' = thrown
              /\ ConfigOf(a) = cachedConfig.data
        /\ (cachedConfig.exists /\ ~cachedConfig.parses)
           => /\ apps'[a].constructed
              /\ thrown' = thrown
              /\ ConfigOf(a) = Scanned
        /\ (~cachedConfig.exists /\ apps'[a].constructed)
           => ConfigOf(a) = Scanned]_vars

\* C34: once an application is constructed, app.config(), the instance
\* its container holds under the Repository token and the repository the
\* config() helper reads are one and the same object, whichever way the
\* constructor loaded the configuration.
C34_OneRepository ==
  (appInstance # 0 /\ apps[appInstance].constructed)
  => /\ apps[appInstance].configRepository = apps[appInstance].repository
     /\ apps[appInstance].configRepository = activeRepo

\* C39: getInstance() returns the application constructed last and
\* config(key, default) reads that application's repository (the default
\* for a key absent there), whatever was done to earlier applications;
\* with no application constructed getInstance() throws and config()
\* returns the default.
C39_HelpersFollowLatest ==
  [][/\ (apps = <<>> /\ GetInstance)
        => thrown' = NoInstanceMsg /\ got' = got
     /\ \A k \in KKeys :
          (apps = <<>> /\ ConfigHelper(k, Str("default")))
          => got'.v = Str("default")
     /\ (apps # <<>> /\ apps[Len(apps)].constructed /\ GetInstance)
        => got'.v = [t |-> "app", n |-> Len(apps)] /\ thrown' = thrown
     /\ \A k \in KKeys :
          (apps # <<>> /\ apps[Len(apps)].constructed
             /\ ConfigHelper(k, Str("default")))
          => got'.v = RepoGet(repos[apps[Len(apps)].configRepository].config,
                              k, Str("default"))]_vars

====
